---------------------------- MODULE Spec2Model ----------------------------
(***************************************************************************)
(* A model of the quiz-bowl client's reveal engine (src/src/hooks/useTTS.js)*)
(* and of its chunker.                                                      *)
(*                                                                          *)
(* The hook's React state (speaking, paused, wordIndex, done) and refs      *)
(* (wordsRef, currentIndexRef, cancelledRef) are the variables of the same  *)
(* names.  window.speechSynthesis is modelled by a FIFO queue of the        *)
(* utterances handed to it, a set of utterances removed by cancel() whose   *)
(* callbacks may still be delivered late, and the engine's paused flag.     *)
(* An utterance carries the closure its callbacks were created in: the      *)
(* session (speak() call) it belongs to, that session's words and the       *)
(* chunk index.  Indices are 0-based as in the source; -1 is "nothing       *)
(* revealed".                                                               *)
(***************************************************************************)
EXTENDS Integers, Sequences, FiniteSets, TLC

\* ------------------------------------------------------------------ bounds
MaxWords == 2        \* longest word list read aloud
MaxSessions == 2     \* speak() calls in one run
MaxChunkWords == 3   \* longest word list given to the chunker alone
MaxLongWords == 16   \* longest list of short tokens given to the chunker alone
MaxVoices == 3       \* longest list of voices the engine enumerates
MaxStarts == 2       \* start() calls of the speech recognition hook in one run
MaxSlots == 2        \* result slots in one recognition result event
MaxConnects == 2     \* connect() calls of the multiplayer client in one run
MaxIndex == 5        \* largest word index of a power mark or a buzz
MaxSubmits == 4      \* doSubmit calls in one behaviour
MaxCalls == 3        \* calls of the throttled HTTP wrapper in one behaviour
MaxTicks == 6        \* clock steps in one behaviour

\* The word cap of the earlier reader: "i < startIndex + 15".
MaxChunkLen == 15

\* ------------------------------------------------------------------ words
\* A word token is a sequence of characters.
WordPlain == <<"a", "b", "c">>
WordPunct == <<"d", ".">>
Vocab == {WordPlain, WordPunct}

RECURSIVE SeqsUpTo(_, _)
SeqsUpTo(S, n) ==
  IF n = 0 THEN {<<>>}
  ELSE LET shorter == SeqsUpTo(S, n - 1)
       IN  shorter \cup {Append(s, x) : s \in {t \in shorter : Len(t) = n - 1}, x \in S}

\* The word lists read aloud: plain tokens and clause-ending tokens in turn, so that
\* chunks of one and of several words, and lists of one and of several chunks, occur.
Alternating(ws) == \A i \in 1..(Len(ws) - 1) : ws[i] # ws[i + 1]
WordLists == {ws \in SeqsUpTo(Vocab, MaxWords) : Alternating(ws)}

Max(a, b) == IF a >= b THEN a ELSE b

PunctChars == {".", "?", "!", ";", ",", ":"}

\* /[.?!;,:]/.test(w): the test without the "$" anchor.
AtPunctuation_Anywhere(w) == \E j \in 1..Len(w) : w[j] \in PunctChars

\* /[.?!;,:]$/.test(w)
AtPunctuation(w) == Len(w) > 0 /\ w[Len(w)] \in PunctChars

\* words.join(' ')
RECURSIVE Join(_)
Join(ws) ==
  IF Len(ws) = 0 THEN <<>>
  ELSE IF Len(ws) = 1 THEN ws[1]
  ELSE ws[1] \o <<" ">> \o Join(Tail(ws))

\* words.slice(from, to): 0-based, to exclusive
Slice(ws, from, to) == SubSeq(ws, from + 1, to)

\* ------------------------------------------------------------------ chunker
\* The loop of buildChunks: i is the loop index, chunkStart and chunks its locals.
RECURSIVE BuildChunksLoop(_, _, _, _)
BuildChunksLoop(words, i, chunkStart, chunks) ==
  IF i >= Len(words) THEN chunks
  ELSE LET atPunctuation == AtPunctuation(words[i + 1])
           atEnd == (i = Len(words) - 1)
       IN  IF atPunctuation \/ atEnd
           THEN BuildChunksLoop(words, i + 1, i + 1,
                  Append(chunks, [text |-> Join(Slice(words, chunkStart, i + 1)),
                                  startIndex |-> chunkStart,
                                  endIndex |-> i]))
           ELSE BuildChunksLoop(words, i + 1, chunkStart, chunks)

\* buildChunks with "chunkStart = i" after a push: the next chunk starts on the
\* token that ended the previous one.
RECURSIVE BuildChunksLoop_Overlap(_, _, _, _)
BuildChunksLoop_Overlap(words, i, chunkStart, chunks) ==
  IF i >= Len(words) THEN chunks
  ELSE LET atPunctuation == AtPunctuation(words[i + 1])
           atEnd == (i = Len(words) - 1)
       IN  IF atPunctuation \/ atEnd
           THEN BuildChunksLoop_Overlap(words, i + 1, i,
                  Append(chunks, [text |-> Join(Slice(words, chunkStart, i + 1)),
                                  startIndex |-> chunkStart,
                                  endIndex |-> i]))
           ELSE BuildChunksLoop_Overlap(words, i + 1, chunkStart, chunks)

buildChunks_Overlap(words) == BuildChunksLoop_Overlap(words, 0, 0, <<>>)

\* buildChunks with the word cap of the earlier reader: a chunk is also closed when
\* it holds MaxChunkLen tokens.
RECURSIVE BuildChunksLoop_Capped(_, _, _, _)
BuildChunksLoop_Capped(words, i, chunkStart, chunks) ==
  IF i >= Len(words) THEN chunks
  ELSE LET atPunctuation == AtPunctuation(words[i + 1])
           atEnd == (i = Len(words) - 1)
           atCap == (i + 1 - chunkStart >= MaxChunkLen)
       IN  IF atPunctuation \/ atEnd \/ atCap
           THEN BuildChunksLoop_Capped(words, i + 1, i + 1,
                  Append(chunks, [text |-> Join(Slice(words, chunkStart, i + 1)),
                                  startIndex |-> chunkStart,
                                  endIndex |-> i]))
           ELSE BuildChunksLoop_Capped(words, i + 1, chunkStart, chunks)

buildChunks_Capped(words) == BuildChunksLoop_Capped(words, 0, 0, <<>>)

buildChunks(words) == BuildChunksLoop(words, 0, 0, <<>>)

\* ------------------------------------------------------------------ state
VARIABLES
  speaking, paused, wordIndex, done,        \* useState
  wordsRef, currentIndexRef, cancelledRef,  \* useRef
  isAndroid,                                \* IS_ANDROID
  queue,          \* speechSynthesis: utterances handed over and not yet ended
  zombies,        \* utterances removed by cancel() whose callbacks may still arrive
  enginePaused,   \* speechSynthesis.paused
  timers,         \* pending setTimeout(() => speakChunk(c + 1), 150)
  nSess,          \* number of speak() calls so far; the latest is the current session
  halted,         \* stop() or reset() has returned and speak() was not called since
  last,           \* the operation or callback that ran last
  cwords, cchunks, cphase,  \* the chunker on its own: input, result, "input" or "built"
  voiceList,      \* speechSynthesis.getVoices()
  voiceURIRef,    \* the voiceURI option; "" when it is undefined
  voice,          \* what getVoice() returned
  vphase,         \* voice selection on its own: "input" or "chosen"
  listening, transcript, supported,     \* useSpeechRecognition: useState
  recognitionRef, stoppedManuallyRef,   \* useSpeechRecognition: useRef (0: null)
  rsess,          \* the SpeechRecognition objects created so far, in order of creation
  rlast,          \* the operation or recognition event that ran last
  socket,         \* MultiplayerClient: this.socket (0: null), an index into socks
  socks,          \* the readyState of every WebSocket created so far
  pingTimer,      \* this.pingTimer (0: null), the id of an interval
  intervals,      \* the setInterval timers that are running
  listeners,      \* this.listeners: for each type its handlers in insertion order
  clast,          \* the client operation or socket event that ran last
  directive, powerIndex, buzzIndex,  \* the arguments of calcTossupPoints
  points,         \* what calcTossupPoints returned
  pphase,         \* scoring on its own: "input" or "scored"
  bonusPhase,     \* BonusPractice: phase; "unmounted" where the hook is on its own
  submittingRef,  \* TossupPractice: submittingRef.current
  pending,        \* the answer checks awaited, by the number of the doSubmit call
  submitResult, score, tossupPhase,  \* TossupPractice: result, score, phase
  submitError,    \* TossupPractice: error
  nSubmits,       \* number of doSubmit calls so far
  slast,          \* the doSubmit call or answer check completion that ran last
  now,            \* Date.now(), in ms
  lastRequestTime,  \* the module variable of the throttled HTTP wrapper
  waiting,        \* the calls waiting out their delay: when each timeout is due
  requests        \* the times at which a request was handed to axios

hookVars == <<speaking, paused, wordIndex, done, wordsRef, currentIndexRef, cancelledRef>>
vars == <<speaking, paused, wordIndex, done, wordsRef, currentIndexRef, cancelledRef,
          isAndroid, queue, zombies, enginePaused, timers, nSess, halted, last,
          cwords, cchunks, cphase, voiceList, voiceURIRef, voice, vphase,
          listening, transcript, supported, recognitionRef, stoppedManuallyRef,
          rsess, rlast, socket, socks, pingTimer, intervals, listeners, clast,
          directive, powerIndex, buzzIndex, points, pphase, bonusPhase,
          submittingRef, pending, submitResult, score, tossupPhase, submitError,
          nSubmits, slast, now, lastRequestTime, waiting, requests>>
chunkVars == <<cwords, cchunks, cphase>>
voiceVars == <<voiceList, voiceURIRef, voice, vphase>>
recVars == <<listening, transcript, supported, recognitionRef, stoppedManuallyRef,
             rsess, rlast>>
clientVars == <<socket, socks, pingTimer, intervals, listeners, clast>>
pointsVars == <<directive, powerIndex, buzzIndex, points, pphase>>
submitVars == <<submittingRef, pending, submitResult, score, tossupPhase, submitError,
                nSubmits, slast>>
throttleVars == <<now, lastRequestTime, waiting, requests>>
pageVars == <<bonusPhase, submitVars, throttleVars>>
ttsVars == <<speaking, paused, wordIndex, done, wordsRef, currentIndexRef, cancelledRef,
             isAndroid, queue, zombies, enginePaused, timers, nSess, halted, last>>

NoPos == -1

\* What the hook was doing when an operation was called.
Phase ==
  IF paused THEN "paused"
  ELSE IF speaking THEN "speaking"
  ELSE IF done THEN "done"
  ELSE IF cancelledRef THEN "stopped"
  ELSE "idle"

\* op: what ran (kind: the error kind of an error callback); sess: the session whose
\* closure ran (0: stop, reset, pause, resume); pos: the candidate the event reports
\* to the cursor (NoPos: none); handed: the utterances handed to the engine; ret:
\* stop()'s return value; from: the phase it was called in; rep: the same operation
\* ran just before.
Op(op, kind, sess, pos, handed, ret) ==
  [op |-> op, kind |-> kind, sess |-> sess, pos |-> pos, handed |-> handed, ret |-> ret,
   from |-> Phase, rep |-> (last.op = op)]

Unmounted == "unmounted"

\* The hook's operations leave every other component alone; where the hook is mounted
\* in BonusPractice, the page's handler that made the call says what becomes of the
\* page's phase.
Record(o) ==
  /\ last' = o
  /\ UNCHANGED <<chunkVars, voiceVars, recVars, clientVars, pointsVars, submitVars,
                 throttleVars>>
  /\ IF bonusPhase = Unmounted THEN UNCHANGED bonusPhase ELSE TRUE

TTSInit ==
  /\ speaking = FALSE
  /\ paused = FALSE
  /\ wordIndex = -1
  /\ done = FALSE
  /\ wordsRef = <<>>
  /\ currentIndexRef = 0
  /\ cancelledRef = FALSE
  /\ isAndroid \in BOOLEAN
  /\ queue = <<>>
  /\ zombies = {}
  /\ enginePaused = FALSE
  /\ timers = {}
  /\ nSess = 0
  /\ halted = FALSE
  /\ last = [op |-> "init", kind |-> "", sess |-> 0, pos |-> NoPos, handed |-> 0,
             ret |-> NoPos, from |-> "idle", rep |-> FALSE]

ChunkIdle == cwords = <<>> /\ cchunks = <<>> /\ cphase = "idle"

\* null: no voice
NoVoice == [voiceURI |-> "", lang |-> <<>>]

VoiceIdle ==
  voiceList = <<>> /\ voiceURIRef = "" /\ voice = NoVoice /\ vphase = "idle"

\* A result event without result slots.
NoEvent == [results |-> <<>>, resultIndex |-> 0]

\* useSpeechRecognition before start(): where SpeechRecognition is missing the hook
\* reports supported = false.
RecInit ==
  /\ listening = FALSE
  /\ transcript = <<>>
  /\ supported \in BOOLEAN
  /\ recognitionRef = 0
  /\ stoppedManuallyRef = FALSE
  /\ rsess = <<>>
  /\ rlast = [op |-> "init", sess |-> 0, ev |-> NoEvent, calls |-> <<>>,
              aborts |-> 0, made |-> 0]

RecIdle == RecInit /\ supported = FALSE

\* The types handlers are registered for, and the handlers.
ListenTypes == {"join", "*"}
Handlers == {"h1", "h2"}

Undefined == "undefined"

\* JSON values: an object is the set of its <<key, value>> pairs.
JObject(pairs) == [kind |-> "object", obj |-> pairs]
JNull == [kind |-> "null", obj |-> {}]
JNumber == [kind |-> "number", obj |-> {}]

\* new MultiplayerClient()
ClientInit ==
  /\ socket = 0
  /\ socks = <<>>
  /\ pingTimer = 0
  /\ intervals = {}
  /\ listeners = [t \in ListenTypes |-> <<>>]
  /\ clast = [op |-> "init", sock |-> 0, type |-> "", data |-> {},
              payload |-> [valid |-> TRUE, value |-> JNull], calls |-> <<>>,
              sent |-> <<>>, h |-> ""]

\* No page is mounted and no request has been made.
NoSubmit == [op |-> "init", n |-> 0, directive |-> "", issued |-> FALSE]
NoScore == [correct |-> 0, neg |-> 0, total |-> 0, questions |-> 0]
SubmitIdle ==
  /\ submittingRef = FALSE
  /\ pending = {}
  /\ submitResult = "null"
  /\ score = NoScore
  /\ tossupPhase = "idle"
  /\ submitError = FALSE
  /\ nSubmits = 0
  /\ slast = NoSubmit
ThrottleIdle ==
  /\ now = 0
  /\ lastRequestTime = 0
  /\ waiting = <<>>
  /\ requests = <<>>
PagesIdle == bonusPhase = Unmounted /\ SubmitIdle /\ ThrottleIdle

\* No score has been asked for.
PointsIdle ==
  /\ directive = "accept"
  /\ powerIndex = -1
  /\ buzzIndex = -1
  /\ points = 0
  /\ pphase = "input"

Init == TTSInit /\ ChunkIdle /\ VoiceIdle /\ RecIdle /\ ClientInit /\ PointsIdle /\ PagesIdle


\* ------------------------------------------------------------------ engine
\* new SpeechSynthesisUtterance(...) with the closure of its callbacks
Utt(sess, words, chunked, c) ==
  [sess |-> sess, words |-> words, chunked |-> chunked, c |-> c, started |-> FALSE]

Range(q) == {q[i] : i \in 1..Len(q)}

\* speechSynthesis.cancel(): the queue is emptied; what was in it may still deliver
\* callbacks that were already on their way, and the error event of the cancel.
Cancelled(q) == {[u EXCEPT !.started = TRUE] : u \in Range(q)}

ErrorKinds == {"canceled", "interrupted", "synthesis-failed"}

\* ------------------------------------------------------------------ helpers of the hook
\* advanceWordIndex assigning the new index instead of taking Math.max
advanceWordIndex_Assign(newIndex) ==
  /\ wordIndex' = newIndex
  /\ currentIndexRef' = newIndex

advanceWordIndex(newIndex) ==
  /\ wordIndex' = Max(wordIndex, newIndex)
  /\ currentIndexRef' = Max(currentIndexRef, newIndex)

\* charToWord[i].start computed without the separating spaces
RECURSIVE CharStart_NoSeparator(_, _)
CharStart_NoSeparator(words, i) ==
  IF i = 0 THEN 0 ELSE CharStart_NoSeparator(words, i - 1) + Len(words[i])

\* charToWord[i].start: the character offset of word i (0-based) in words.join(' ')
RECURSIVE CharStart(_, _)
CharStart(words, i) ==
  IF i = 0 THEN 0 ELSE CharStart(words, i - 1) + Len(words[i]) + 1

\* The lookup loop of onboundary: from the last word down, the first whose start
\* is at or before charIndex; word 0 when there is none.
RECURSIVE BoundaryLoop(_, _, _)
BoundaryLoop(words, charIndex, i) ==
  IF i < 0 THEN 0
  ELSE IF charIndex >= CharStart(words, i) THEN i
  ELSE BoundaryLoop(words, charIndex, i - 1)

WordAt(words, charIndex) == BoundaryLoop(words, charIndex, Len(words) - 1)

\* ------------------------------------------------------------------ handing utterances over
\* speakSingleUtterance without its final speechSynthesis.speak(utt)
speakSingleUtterance_Dropped(cancelled, q, sess, words) == q

speakSingleUtterance(cancelled, q, sess, words) ==
  IF cancelled THEN q ELSE Append(q, Utt(sess, words, FALSE, 0))

\* speakChunk without the cancelledRef test
speakChunk_NoGuard(cancelled, q, sess, words, c) ==
  IF c >= Len(buildChunks(words)) THEN q
  ELSE Append(q, Utt(sess, words, TRUE, c))

speakChunk(cancelled, q, sess, words, c) ==
  IF cancelled \/ c >= Len(buildChunks(words)) THEN q
  ELSE Append(q, Utt(sess, words, TRUE, c))

\* speakChunked handing the first two chunks to the engine at once
speakChunked_PreQueued(cancelled, q, sess, words) ==
  IF cancelled THEN q
  ELSE speakChunk(cancelled, speakChunk(cancelled, q, sess, words, 0), sess, words, 1)

speakChunked(cancelled, q, sess, words) ==
  IF cancelled THEN q ELSE speakChunk(cancelled, q, sess, words, 0)

\* ------------------------------------------------------------------ utterance callbacks
\* Each states the hook's variables and the timers after the callback.
\* The end of the last utterance without setSpeaking(false)
Finish_KeepsSpeaking(words) ==
  /\ advanceWordIndex(Len(words) - 1)
  /\ UNCHANGED speaking
  /\ paused' = FALSE
  /\ done' = TRUE

Finish(words) ==
  /\ advanceWordIndex(Len(words) - 1)
  /\ speaking' = FALSE
  /\ paused' = FALSE
  /\ done' = TRUE

NoOp == UNCHANGED <<speaking, paused, wordIndex, done, currentIndexRef, timers>>

SingleOnStart(u) ==
  IF cancelledRef THEN NoOp
  ELSE /\ advanceWordIndex(0)
       /\ UNCHANGED <<speaking, paused, done, timers>>

ChunkOnStart(u) ==
  IF cancelledRef THEN NoOp
  ELSE /\ advanceWordIndex(buildChunks(u.words)[u.c + 1].endIndex)
       /\ UNCHANGED <<speaking, paused, done, timers>>

SingleOnBoundary(u, name, charIndex) ==
  IF cancelledRef THEN NoOp
  ELSE IF name = "word"
       THEN /\ advanceWordIndex(WordAt(u.words, charIndex))
            /\ UNCHANGED <<speaking, paused, done, timers>>
       ELSE NoOp

SingleOnEnd(u) ==
  IF cancelledRef THEN NoOp
  ELSE /\ Finish(u.words)
       /\ UNCHANGED timers

\* The end callback of a chunk without the chaining of the next chunk
ChunkOnEnd_NoChain(u) ==
  IF cancelledRef THEN NoOp
  ELSE IF u.c = Len(buildChunks(u.words)) - 1
       THEN /\ Finish(u.words)
            /\ UNCHANGED timers
       ELSE NoOp

ChunkOnEnd(u) ==
  IF cancelledRef THEN NoOp
  ELSE IF u.c = Len(buildChunks(u.words)) - 1
       THEN /\ Finish(u.words)
            /\ UNCHANGED timers
       ELSE /\ timers' = timers \cup {[sess |-> u.sess, words |-> u.words, c |-> u.c + 1]}
            /\ UNCHANGED <<speaking, paused, wordIndex, done, currentIndexRef>>

\* utt.onerror without the test for 'canceled' and 'interrupted'
UttOnError_NoFilter(u, kind) ==
  /\ speaking' = FALSE
  /\ UNCHANGED <<paused, wordIndex, done, currentIndexRef, timers>>

\* utt.onerror is the same code in both strategies
UttOnError(u, kind) ==
  IF kind = "canceled" \/ kind = "interrupted" THEN NoOp
  ELSE /\ speaking' = FALSE
       /\ UNCHANGED <<paused, wordIndex, done, currentIndexRef, timers>>

UttOnStart(u) == IF u.chunked THEN ChunkOnStart(u) ELSE SingleOnStart(u)
UttOnEnd(u) == IF u.chunked THEN ChunkOnEnd(u) ELSE SingleOnEnd(u)

\* The candidate an event reports to the cursor.
StartPos(u) == IF u.chunked THEN buildChunks(u.words)[u.c + 1].endIndex ELSE 0
EndPos(u) ==
  IF ~u.chunked \/ u.c = Len(buildChunks(u.words)) - 1 THEN Len(u.words) - 1 ELSE NoPos


\* ------------------------------------------------------------------ public API
speak(words) ==
  LET sess == nSess + 1
      q == IF Len(words) = 0 THEN <<>>
           ELSE IF isAndroid THEN speakChunked(FALSE, <<>>, sess, words)
           ELSE speakSingleUtterance(FALSE, <<>>, sess, words)
  IN  /\ nSess < MaxSessions
      /\ nSess' = sess
      /\ zombies' = zombies \cup Cancelled(queue)
      /\ queue' = q
      /\ cancelledRef' = FALSE
      /\ halted' = FALSE
      /\ wordsRef' = words
      /\ currentIndexRef' = 0
      /\ wordIndex' = -1
      /\ done' = (Len(words) = 0)
      /\ speaking' = (Len(words) # 0)
      /\ paused' = FALSE
      /\ Record(Op("speak", "", sess, NoPos, Len(q), NoPos))
      /\ UNCHANGED <<isAndroid, enginePaused, timers>>

\* pause() that stops the reading the way stop() does
pause_Cancels ==
  /\ enginePaused' = TRUE
  /\ paused' = TRUE
  /\ cancelledRef' = TRUE
  /\ zombies' = zombies \cup Cancelled(queue)
  /\ queue' = <<>>
  /\ Record(Op("pause", "", 0, NoPos, 0, NoPos))
  /\ UNCHANGED <<speaking, wordIndex, done, wordsRef, currentIndexRef,
                 isAndroid, timers, nSess, halted>>

pause ==
  /\ enginePaused' = TRUE
  /\ paused' = TRUE
  /\ Record(Op("pause", "", 0, NoPos, 0, NoPos))
  /\ UNCHANGED <<speaking, wordIndex, done, wordsRef, currentIndexRef, cancelledRef,
                 isAndroid, queue, zombies, timers, nSess, halted>>

resume ==
  /\ enginePaused' = FALSE
  /\ paused' = FALSE
  /\ Record(Op("resume", "", 0, NoPos, 0, NoPos))
  /\ UNCHANGED <<speaking, wordIndex, done, wordsRef, currentIndexRef, cancelledRef,
                 isAndroid, queue, zombies, timers, nSess, halted>>

\* stop() without setSpeaking(false)
stop_KeepsSpeaking ==
  /\ cancelledRef' = TRUE
  /\ halted' = TRUE
  /\ zombies' = zombies \cup Cancelled(queue)
  /\ queue' = <<>>
  /\ paused' = FALSE
  /\ Record(Op("stop", "", 0, NoPos, 0, currentIndexRef))
  /\ UNCHANGED <<speaking, wordIndex, done, wordsRef, currentIndexRef,
                 isAndroid, enginePaused, timers, nSess>>

stop ==
  /\ cancelledRef' = TRUE
  /\ halted' = TRUE
  /\ zombies' = zombies \cup Cancelled(queue)
  /\ queue' = <<>>
  /\ speaking' = FALSE
  /\ paused' = FALSE
  /\ Record(Op("stop", "", 0, NoPos, 0, currentIndexRef))
  /\ UNCHANGED <<wordIndex, done, wordsRef, currentIndexRef,
                 isAndroid, enginePaused, timers, nSess>>

reset ==
  /\ cancelledRef' = TRUE
  /\ halted' = TRUE
  /\ zombies' = zombies \cup Cancelled(queue)
  /\ queue' = <<>>
  /\ wordsRef' = <<>>
  /\ currentIndexRef' = 0
  /\ speaking' = FALSE
  /\ paused' = FALSE
  /\ wordIndex' = -1
  /\ done' = FALSE
  /\ Record(Op("reset", "", 0, NoPos, 0, NoPos))
  /\ UNCHANGED <<isAndroid, enginePaused, timers, nSess>>

\* ------------------------------------------------------------------ the engine's events
\* The engine speaks the head of its queue, unless it is paused.
Frame == UNCHANGED <<wordsRef, cancelledRef, isAndroid, enginePaused, nSess, halted>>

EvStart ==
  /\ ~enginePaused
  /\ Len(queue) > 0
  /\ ~queue[1].started
  /\ queue' = [queue EXCEPT ![1].started = TRUE]
  /\ UttOnStart(queue[1])
  /\ Record(Op("start", "", queue[1].sess, StartPos(queue[1]), 0, NoPos))
  /\ UNCHANGED zombies
  /\ Frame

\* Only the single-utterance strategy registers onboundary.
EvBoundary ==
  /\ ~enginePaused
  /\ Len(queue) > 0
  /\ queue[1].started
  /\ ~queue[1].chunked
  /\ \E name \in {"word", "sentence"} :
       \E charIndex \in 0..Len(Join(queue[1].words)) :
         /\ SingleOnBoundary(queue[1], name, charIndex)
         /\ Record(Op("boundary", name, queue[1].sess,
                      IF name = "word" THEN WordAt(queue[1].words, charIndex) ELSE NoPos,
                      0, NoPos))
  /\ UNCHANGED <<queue, zombies>>
  /\ Frame

EvEnd ==
  /\ ~enginePaused
  /\ Len(queue) > 0
  /\ queue[1].started
  /\ queue' = Tail(queue)
  /\ UttOnEnd(queue[1])
  /\ Record(Op("end", "", queue[1].sess, EndPos(queue[1]), 0, NoPos))
  /\ UNCHANGED zombies
  /\ Frame

\* A synthesis failure of the utterance being processed.
EvError ==
  /\ Len(queue) > 0
  /\ queue' = Tail(queue)
  /\ UttOnError(queue[1], "synthesis-failed")
  /\ Record(Op("error", "synthesis-failed", queue[1].sess, NoPos, 0, NoPos))
  /\ UNCHANGED zombies
  /\ Frame

\* Callbacks of utterances that cancel() removed, delivered after the cancel.
LateStart ==
  \E z \in zombies :
    /\ UttOnStart(z)
    /\ Record(Op("start", "", z.sess, StartPos(z), 0, NoPos))
    /\ UNCHANGED <<queue, zombies>>
    /\ Frame

LateBoundary ==
  \E z \in zombies :
    /\ ~z.chunked
    /\ \E charIndex \in 0..Len(Join(z.words)) :
         /\ SingleOnBoundary(z, "word", charIndex)
         /\ Record(Op("boundary", "word", z.sess, WordAt(z.words, charIndex), 0, NoPos))
    /\ UNCHANGED <<queue, zombies>>
    /\ Frame

LateEnd ==
  \E z \in zombies :
    /\ zombies' = zombies \ {z}
    /\ UttOnEnd(z)
    /\ Record(Op("end", "", z.sess, EndPos(z), 0, NoPos))
    /\ UNCHANGED queue
    /\ Frame

LateError ==
  \E z \in zombies, kind \in ErrorKinds :
    /\ zombies' = zombies \ {z}
    /\ UttOnError(z, kind)
    /\ Record(Op("error", kind, z.sess, NoPos, 0, NoPos))
    /\ UNCHANGED queue
    /\ Frame

\* setTimeout(() => speakChunk(c + 1), 150) fires
TimerFire ==
  \E t \in timers :
    LET q == speakChunk(cancelledRef, queue, t.sess, t.words, t.c)
    IN  /\ timers' = timers \ {t}
        /\ queue' = q
        /\ Record(Op("timer", "", t.sess, NoPos, Len(q) - Len(queue), NoPos))
        /\ UNCHANGED <<speaking, paused, wordIndex, done, currentIndexRef, zombies>>
        /\ Frame

Next ==
  \/ \E words \in WordLists : speak(words)
  \/ pause
  \/ resume
  \/ stop
  \/ reset
  \/ EvStart
  \/ EvBoundary
  \/ EvEnd
  \/ EvError
  \/ LateStart
  \/ LateBoundary
  \/ LateEnd
  \/ LateError
  \/ TimerFire

Spec == Init /\ [][Next]_vars

\* ------------------------------------------------------------------ boundary lookup
\* The single-utterance strategy on its own: speak(), the start event and the
\* boundary events of the utterance being read, each boundary event recorded with
\* the character offset it carried.
BoundaryInit == Init /\ isAndroid = FALSE

EvBoundaryAt ==
  /\ ~enginePaused
  /\ Len(queue) > 0
  /\ queue[1].started
  /\ ~queue[1].chunked
  /\ \E name \in {"word", "sentence"} :
       \E charIndex \in 0..Len(Join(queue[1].words)) :
         /\ SingleOnBoundary(queue[1], name, charIndex)
         /\ Record(Op("boundary", name, queue[1].sess, charIndex, 0, NoPos))
  /\ UNCHANGED <<queue, zombies>>
  /\ Frame

BoundaryNext ==
  \/ \E words \in WordLists : speak(words)
  \/ EvStart
  \/ EvBoundaryAt

BoundarySpec == BoundaryInit /\ [][BoundaryNext]_vars


\* ------------------------------------------------------------------ the chunker alone
\* Tokens for the chunker: one for each punctuation mark of the pattern, a plain one,
\* and one whose punctuation is not at its end.
ChunkVocab ==
  {<<"a">>, <<"b", ".">>, <<"c", "?">>, <<"d", "!">>, <<"e", ";">>, <<"f", ",">>,
   <<"g", ":">>, <<".", "h">>}

ChunkLists == SeqsUpTo(ChunkVocab, MaxChunkWords)

\* Long lists of short tokens: all plain, or plain with one clause-ending token.
LongLists ==
  {[i \in 1..n |-> IF i = p THEN <<"b", ".">> ELSE <<"a">>] :
     n \in 0..MaxLongWords, p \in 0..MaxLongWords}

ChunkInit ==
  /\ TTSInit
  /\ VoiceIdle
  /\ RecIdle
  /\ ClientInit /\ PointsIdle /\ PagesIdle
  /\ isAndroid = TRUE
  /\ cwords \in ChunkLists \cup LongLists
  /\ cchunks = <<>>
  /\ cphase = "input"

ChunkBuild ==
  /\ cphase = "input"
  /\ cchunks' = buildChunks(cwords)
  /\ cphase' = "built"
  /\ UNCHANGED cwords
  /\ UNCHANGED <<ttsVars, voiceVars, recVars, clientVars, pointsVars, pageVars>>

ChunkNext == ChunkBuild

ChunkSpec == ChunkInit /\ [][ChunkNext]_vars


\* ------------------------------------------------------------------ voice selection alone
\* s.startsWith(prefix)
StartsWith(s, prefix) ==
  Len(s) >= Len(prefix) /\ SubSeq(s, 1, Len(prefix)) = prefix

\* voice.lang.startsWith('en')
IsEnglish(v) == StartsWith(v.lang, <<"e", "n">>)

\* v.find(test), passing being the elements test accepts: the first element that
\* passes, NoVoice (undefined) when none does
Find(v, passing) ==
  IF \E i \in 1..Len(v) : v[i] \in passing
  THEN v[CHOOSE i \in 1..Len(v) :
           v[i] \in passing /\ \A j \in 1..(i - 1) : v[j] \notin passing]
  ELSE NoVoice

\* getVoice looking for an English voice before the preferred one
getVoice_EnglishFirst(v, voiceURI) ==
  LET english == Find(v, {x \in Range(v) : IsEnglish(x)})
      match == IF voiceURI # ""
               THEN Find(v, {x \in Range(v) : x.voiceURI = voiceURI})
               ELSE NoVoice
  IN  IF english # NoVoice THEN english
      ELSE IF match # NoVoice THEN match
      ELSE IF Len(v) > 0 THEN v[1]
      ELSE NoVoice

getVoice(v, voiceURI) ==
  LET match == IF voiceURI # ""
               THEN Find(v, {x \in Range(v) : x.voiceURI = voiceURI})
               ELSE NoVoice
      english == Find(v, {x \in Range(v) : IsEnglish(x)})
  IN  IF match # NoVoice THEN match
      ELSE IF english # NoVoice THEN english
      ELSE IF Len(v) > 0 THEN v[1]
      ELSE NoVoice

\* The voices an engine may list: their ids, and language tags that start with
\* 'en', do not, differ from it in case, or are shorter than it.
VoiceURIs == {"v1", "v2", "v3"}
VoiceLangs ==
  {<<"e", "n", "-", "U", "S">>, <<"f", "r">>, <<"E", "N">>, <<"e">>}
Voices == [voiceURI : VoiceURIs, lang : VoiceLangs]
VoiceLists == SeqsUpTo(Voices, MaxVoices)

VoiceInit ==
  /\ TTSInit
  /\ ChunkIdle
  /\ RecIdle
  /\ ClientInit /\ PointsIdle /\ PagesIdle
  /\ voiceList \in VoiceLists
  /\ voiceURIRef \in VoiceURIs \cup {""}
  /\ voice = NoVoice
  /\ vphase = "input"

VoiceChoose ==
  /\ vphase = "input"
  /\ voice' = getVoice(voiceList, voiceURIRef)
  /\ vphase' = "chosen"
  /\ UNCHANGED <<voiceList, voiceURIRef>>
  /\ UNCHANGED <<ttsVars, chunkVars, recVars, clientVars, pointsVars, pageVars>>

VoiceNext == VoiceChoose

VoiceSpec == VoiceInit /\ [][VoiceNext]_vars


\* ------------------------------------------------------------------ speech recognition
\* A SpeechRecognition object: st is where the engine is with it ("starting": start()
\* was called, "started": its start event was delivered, "closing": its error event
\* was delivered, "ended": its end event was delivered, "failed": start() threw);
\* aborted: abort() was called on it; late: the result events that were on their way
\* when abort() was called; final: a final result of it reached the hook; early:
\* stop() was called on it before any final result had.
NewRecognition(throws) ==
  [st |-> IF throws THEN "failed" ELSE "starting",
   aborted |-> FALSE, late |-> 0, final |-> FALSE, early |-> FALSE]

RecOp(op, sess, ev, calls, aborts, made) ==
  [op |-> op, sess |-> sess, ev |-> ev, calls |-> calls, aborts |-> aborts, made |-> made]

RecRecord(o) == rlast' = o /\ UNCHANGED <<ttsVars, chunkVars, voiceVars, clientVars, pointsVars, pageVars>>

\* recognition.abort(): a recognition that was delivering results may have one more
\* on its way.
Abort(ss, ref) ==
  [ss EXCEPT ![ref].aborted = TRUE,
             ![ref].late = IF ss[ref].st = "started" /\ ~ss[ref].aborted THEN 1 ELSE @]

\* start() leaving an existing instance alone
AbortExisting_Skip(ss, ref) == ss

\* "Clean up any existing instance": the reference is not cleared here.
AbortExisting(ss, ref) == IF ref # 0 THEN Abort(ss, ref) ELSE ss

\* s.trim(); the space is the only white space in the texts used.
RECURSIVE TrimStart(_)
TrimStart(t) ==
  IF Len(t) > 0 /\ t[1] = " " THEN TrimStart(Tail(t)) ELSE t

RECURSIVE TrimEnd(_)
TrimEnd(t) ==
  IF Len(t) > 0 /\ t[Len(t)] = " " THEN TrimEnd(SubSeq(t, 1, Len(t) - 1)) ELSE t

Trim(t) == TrimEnd(TrimStart(t))

\* The loop of onresult: i is the loop index, interim and final its accumulators.
RECURSIVE ResultLoop(_, _, _, _)
ResultLoop(results, i, interim, final) ==
  IF i >= Len(results) THEN [interim |-> interim, final |-> final]
  ELSE LET result == results[i + 1]
       IN  IF result.isFinal
           THEN ResultLoop(results, i + 1, interim, final \o result.transcript)
           ELSE ResultLoop(results, i + 1, interim \o result.transcript, final)

Call(cb, arg) == [cb |-> cb, arg |-> arg]

\* What the handler does with what the loop gathered: the new transcript and the
\* callbacks invoked, in order.
Deliver(t, acc) ==
  IF acc.final # <<>>
  THEN [transcript |-> acc.final,
        calls |-> <<Call("onInterimResult", acc.final),
                    Call("onFinalResult", Trim(acc.final))>>]
  ELSE IF acc.interim # <<>>
  THEN [transcript |-> acc.interim,
        calls |-> <<Call("onInterimResult", acc.interim)>>]
  ELSE [transcript |-> t, calls |-> <<>>]

\* onresult with its loop started at 0 instead of event.resultIndex
onresult_FromZero(t, ev) == Deliver(t, ResultLoop(ev.results, 0, <<>>, <<>>))

\* recognition.onresult
onresult(t, ev) == Deliver(t, ResultLoop(ev.results, ev.resultIndex, <<>>, <<>>))

HasFinalCall(calls) == \E k \in 1..Len(calls) : calls[k].cb = "onFinalResult"

\* The body of stop() without setting recognitionRef.current = null
StopRecognition_KeepsRef ==
  /\ stoppedManuallyRef' = TRUE
  /\ rsess' = IF recognitionRef # 0
              THEN [Abort(rsess, recognitionRef) EXCEPT
                      ![recognitionRef].early = @ \/ ~rsess[recognitionRef].final]
              ELSE rsess
  /\ UNCHANGED recognitionRef
  /\ listening' = FALSE
  /\ UNCHANGED supported

\* The body of stop(), shared by stop() and reset()
StopRecognition ==
  /\ stoppedManuallyRef' = TRUE
  /\ rsess' = IF recognitionRef # 0
              THEN [Abort(rsess, recognitionRef) EXCEPT
                      ![recognitionRef].early = @ \/ ~rsess[recognitionRef].final]
              ELSE rsess
  /\ recognitionRef' = 0
  /\ listening' = FALSE
  /\ UNCHANGED supported

recStop ==
  /\ StopRecognition
  /\ UNCHANGED transcript
  /\ RecRecord(RecOp("stop", recognitionRef, NoEvent, <<>>,
                     IF recognitionRef # 0 THEN 1 ELSE 0, 0))

recReset ==
  /\ StopRecognition
  /\ transcript' = <<>>
  /\ RecRecord(RecOp("reset", recognitionRef, NoEvent, <<>>,
                     IF recognitionRef # 0 THEN 1 ELSE 0, 0))

\* start(); throws: recognition.start() throws and the catch block runs.
recStart(throws) ==
  IF ~supported
  THEN /\ UNCHANGED <<listening, transcript, supported, recognitionRef,
                      stoppedManuallyRef, rsess>>
       /\ RecRecord(RecOp("start", 0, NoEvent, <<>>, 0, 0))
  ELSE /\ Len(rsess) < MaxStarts
       /\ rsess' = Append(AbortExisting(rsess, recognitionRef), NewRecognition(throws))
       /\ stoppedManuallyRef' = FALSE
       /\ recognitionRef' = Len(rsess) + 1
       /\ listening' = IF throws THEN FALSE ELSE listening
       /\ UNCHANGED <<transcript, supported>>
       /\ RecRecord(RecOp("start", Len(rsess) + 1, NoEvent, <<>>,
                          IF rsess' = Append(rsess, NewRecognition(throws)) THEN 0 ELSE 1,
                          1))

\* The events of a SpeechRecognition object s. abort() makes the engine deliver the
\* error 'aborted' and the end event later; a start event or a result event that was
\* on its way when abort() was called still arrives before them.
RecFrame == UNCHANGED <<supported, recognitionRef, stoppedManuallyRef>>

RecEvStart(s) ==
  /\ rsess[s].st = "starting"
  /\ rsess' = [rsess EXCEPT ![s].st = "started"]
  /\ listening' = TRUE
  /\ UNCHANGED transcript
  /\ RecFrame
  /\ RecRecord(RecOp("onstart", s, NoEvent, <<>>, 0, 0))

RecEvResult(s, ev) ==
  LET r == onresult(transcript, ev)
  IN  /\ rsess[s].st = "started"
      /\ rsess[s].aborted => rsess[s].late > 0
      /\ transcript' = r.transcript
      /\ rsess' = [rsess EXCEPT ![s].final = @ \/ HasFinalCall(r.calls),
                                ![s].late = IF rsess[s].aborted THEN @ - 1 ELSE @]
      /\ UNCHANGED listening
      /\ RecFrame
      /\ RecRecord(RecOp("onresult", s, ev, r.calls, 0, 0))

RecErrorKinds == {"no-speech", "aborted", "not-allowed", "network"}

\* onerror: every branch ends in setListening(false).
RecEvError(s, kind) ==
  /\ rsess[s].st \in {"starting", "started"}
  /\ (kind = "aborted") = rsess[s].aborted
  /\ rsess' = [rsess EXCEPT ![s].st = "closing"]
  /\ listening' = FALSE
  /\ UNCHANGED transcript
  /\ RecFrame
  /\ RecRecord(RecOp("onerror", s, NoEvent, <<>>, 0, 0))

RecEvEnd(s) ==
  /\ \/ rsess[s].st \in {"started", "closing"}
     \/ rsess[s].st = "starting" /\ rsess[s].aborted
  /\ rsess' = [rsess EXCEPT ![s].st = "ended"]
  /\ listening' = FALSE
  /\ UNCHANGED transcript
  /\ RecFrame
  /\ RecRecord(RecOp("onend", s, NoEvent, <<>>, 0, 0))

\* The result events of the hook's runs: a final and an interim result of one slot.
RecEvents ==
  {[results |-> <<[isFinal |-> TRUE, transcript |-> <<" ", "a">>]>>, resultIndex |-> 0],
   [results |-> <<[isFinal |-> FALSE, transcript |-> <<"b">>]>>, resultIndex |-> 0]}

RecSpecInit ==
  TTSInit /\ isAndroid = FALSE /\ ChunkIdle /\ VoiceIdle /\ RecInit /\ ClientInit /\ PointsIdle /\ PagesIdle

RecNext ==
  \/ \E throws \in BOOLEAN : recStart(throws)
  \/ recStop
  \/ recReset
  \/ \E s \in 1..Len(rsess) : RecEvStart(s)
  \/ \E s \in 1..Len(rsess) : \E ev \in RecEvents : RecEvResult(s, ev)
  \/ \E s \in 1..Len(rsess) : \E kind \in RecErrorKinds : RecEvError(s, kind)
  \/ \E s \in 1..Len(rsess) : RecEvEnd(s)

RecSpec == RecSpecInit /\ [][RecNext]_vars

\* ------------------------------------------------------------------ onresult alone
\* The texts of result slots: empty, white space, and words with a space before or
\* after them.
SlotTexts == {<<>>, <<" ">>, <<" ", "a">>, <<"b", " ">>}
Slots == [isFinal : BOOLEAN, transcript : SlotTexts]
ResultEvents ==
  {ev \in [results : SeqsUpTo(Slots, MaxSlots), resultIndex : 0..MaxSlots] :
     ev.resultIndex <= Len(ev.results)}

\* The hook after start() and the start event of its recognition; the transcript is
\* empty or what an earlier recognition left.
ResultInit ==
  /\ TTSInit /\ isAndroid = FALSE /\ ChunkIdle /\ VoiceIdle /\ ClientInit /\ PointsIdle /\ PagesIdle
  /\ listening = TRUE
  /\ transcript \in {<<>>, <<"c">>}
  /\ supported = TRUE
  /\ recognitionRef = 1
  /\ stoppedManuallyRef = FALSE
  /\ rsess = <<[NewRecognition(FALSE) EXCEPT !.st = "started"]>>
  /\ rlast = RecOp("onstart", 1, NoEvent, <<>>, 0, 0)

\* One result event in each run.
ResultNext == rlast.op = "onstart" /\ \E ev \in ResultEvents : RecEvResult(1, ev)

ResultSpec == ResultInit /\ [][ResultNext]_vars


\* ------------------------------------------------------------------ multiplayer client
\* WebSocket.readyState
CONNECTING == 0
OPEN == 1
CLOSING == 2
CLOSED == 3

ObjKeys(o) == {p[1] : p \in o}

\* o[k]
Get(o, k) ==
  IF k \in ObjKeys(o) THEN (CHOOSE p \in o : p[1] = k)[2] ELSE Undefined

\* { ...a, ...b }: b's value wins where both have the key; the key stays a field when
\* its value is undefined.
Spread(a, b) == {p \in a : p[1] \notin ObjKeys(b)} \cup b

\* What the peer reads from JSON.stringify(o): a field whose value is undefined is
\* left out.
Stringify(o) == {p \in o : p[2] # Undefined}

\* A handler invocation: the handler and its arguments.
Invoke(h, args) == [h |-> h, args |-> args]

\* The handlers that throw when they are invoked.
Throwing == {"h2"}

\* The invocations up to and including the first one that throws
UpToThrow(calls) ==
  IF \E k \in 1..Len(calls) : calls[k].h \in Throwing
  THEN SubSeq(calls, 1, CHOOSE k \in 1..Len(calls) :
                          /\ calls[k].h \in Throwing
                          /\ \A j \in 1..(k - 1) : calls[j].h \notin Throwing)
  ELSE calls

\* _emit without the wildcard loop
emit_NoWildcard(ls, type, data) ==
  LET handlers == IF type \in DOMAIN ls THEN ls[type] ELSE <<>>
  IN  [k \in 1..Len(handlers) |-> Invoke(handlers[k], <<data>>)]

\* _emit without the try/catch around a handler: the first exception ends the dispatch
emit_NoCatch(ls, type, data) ==
  LET handlers == IF type \in DOMAIN ls THEN ls[type] ELSE <<>>
      wildcardHandlers == ls["*"]
  IN  UpToThrow([k \in 1..Len(handlers) |-> Invoke(handlers[k], <<data>>)]
                \o [k \in 1..Len(wildcardHandlers) |->
                      Invoke(wildcardHandlers[k], <<type, data>>)])

\* _emit: the handler invocations, in order. An exception a handler throws is caught
\* around that handler.
emit(ls, type, data) ==
  LET handlers == IF type \in DOMAIN ls THEN ls[type] ELSE <<>>
      wildcardHandlers == ls["*"]
  IN  [k \in 1..Len(handlers) |-> Invoke(handlers[k], <<data>>)]
      \o [k \in 1..Len(wildcardHandlers) |-> Invoke(wildcardHandlers[k], <<type, data>>)]

\* socket.onmessage reporting a parse failure to the subscribers as an '_error' event
onmessage_EmitsError(ls, payload) ==
  IF ~payload.valid THEN emit(ls, "_error", JObject({}))
  ELSE IF payload.value.kind = "null" THEN <<>>
  ELSE emit(ls, IF payload.value.kind = "object" THEN Get(payload.value.obj, "type")
                ELSE Undefined,
            payload.value)

\* socket.onmessage: JSON.parse throws on text that is not JSON, and msg.type throws
\* on null; both end in the catch block. A number has no type property.
onmessage(ls, payload) ==
  IF ~payload.valid THEN <<>>
  ELSE IF payload.value.kind = "null" THEN <<>>
  ELSE emit(ls, IF payload.value.kind = "object" THEN Get(payload.value.obj, "type")
                ELSE Undefined,
            payload.value)

\* _cleanup: the value of this.pingTimer and the running intervals afterwards
cleanup(timer, ivs) ==
  IF timer # 0 THEN [pingTimer |-> 0, intervals |-> ivs \ {timer}]
  ELSE [pingTimer |-> timer, intervals |-> ivs]

\* send: what is handed to socket.send, and on which socket
Transmit(sk, ss, type, data) ==
  IF sk # 0 /\ ss[sk] = OPEN
  THEN <<[sock |-> sk, msg |-> Stringify(Spread({<<"type", type>>}, data))]>>
  ELSE <<>>

NoPayload == [valid |-> TRUE, value |-> JNull]

ClientOp(op, sock, type, data, payload, calls, sent) ==
  [op |-> op, sock |-> sock, type |-> type, data |-> data, payload |-> payload,
   calls |-> calls, sent |-> sent, h |-> ""]

ClientRecord(o) ==
  clast' = o /\ UNCHANGED <<ttsVars, chunkVars, voiceVars, recVars, pointsVars, pageVars>>

\* connect(): the earlier socket, if any, is neither closed nor detached.
connect ==
  /\ Len(socks) < MaxConnects
  /\ socks' = Append(socks, CONNECTING)
  /\ socket' = Len(socks) + 1
  /\ UNCHANGED <<pingTimer, intervals, listeners>>
  /\ ClientRecord(ClientOp("connect", Len(socks) + 1, "", {}, NoPayload, <<>>, <<>>))

\* The arguments of send(): a type, and data without fields, with a payload field,
\* with a field named type, and with a field whose value is undefined.
SendTypes == {"chat"}
SendData ==
  {{}, {<<"message", "hi">>}, {<<"type", "buzz">>, <<"message", "hi">>},
   {<<"message", Undefined>>}}

send(type, data) ==
  /\ UNCHANGED <<socket, socks, pingTimer, intervals, listeners>>
  /\ ClientRecord(ClientOp("send", socket, type, data, NoPayload, <<>>,
                           Transmit(socket, socks, type, data)))

\* on(type, callback): a Set keeps one entry for a callback added twice.
on(type, callback) ==
  /\ listeners' =
       [listeners EXCEPT ![type] =
          IF \E k \in 1..Len(@) : @[k] = callback THEN @ ELSE Append(@, callback)]
  /\ UNCHANGED <<socket, socks, pingTimer, intervals>>
  /\ ClientRecord([ClientOp("on", 0, type, {}, NoPayload, <<>>, <<>>)
                    EXCEPT !.h = callback])

\* Set.delete(callback): the other entries keep their order.
Delete(handlers, callback) == SelectSeq(handlers, LAMBDA h : h # callback)

\* An unsubscribe function that empties the Set of its type
Unsubscribed_ClearsType(ls, type, callback) == [ls EXCEPT ![type] = <<>>]

\* listeners.get(type)?.delete(callback)
Unsubscribed(ls, type, callback) ==
  IF type \in DOMAIN ls THEN [ls EXCEPT ![type] = Delete(@, callback)] ELSE ls

\* The function on(type, callback) returned. It exists once on(type, callback) has
\* run: it is called while the callback is registered, or again right after a call.
unsubscribe(type, callback) ==
  /\ \/ \E k \in 1..Len(listeners[type]) : listeners[type][k] = callback
     \/ clast.op = "unsubscribe" /\ clast.type = type /\ clast.h = callback
  /\ listeners' = Unsubscribed(listeners, type, callback)
  /\ UNCHANGED <<socket, socks, pingTimer, intervals>>
  /\ ClientRecord([ClientOp("unsubscribe", 0, type, {}, NoPayload, <<>>, <<>>)
                    EXCEPT !.h = callback])

\* disconnect(): close() moves a connecting or open socket to CLOSING; its handlers
\* stay attached.
disconnect ==
  LET c == cleanup(pingTimer, intervals)
  IN  /\ pingTimer' = c.pingTimer
      /\ intervals' = c.intervals
      /\ socks' = IF socket # 0 /\ socks[socket] \in {CONNECTING, OPEN}
                  THEN [socks EXCEPT ![socket] = CLOSING]
                  ELSE socks
      /\ socket' = 0
      /\ UNCHANGED listeners
      /\ ClientRecord(ClientOp("disconnect", socket, "", {}, NoPayload, <<>>, <<>>))

\* socket.onopen of the socket s
SockOpen(s) ==
  /\ socks[s] = CONNECTING
  /\ socks' = [socks EXCEPT ![s] = OPEN]
  /\ pingTimer' = s
  /\ intervals' = intervals \cup {s}
  /\ UNCHANGED <<socket, listeners>>
  /\ ClientRecord(ClientOp("open", s, "_connected", {}, NoPayload,
                           emit(listeners, "_connected", JObject({})), <<>>))

\* The texts a socket delivers: objects with a type, an object without one, null, a
\* number, and text that is not JSON.
Payloads ==
  {[valid |-> TRUE, value |-> JObject({<<"type", "join">>, <<"userId", "u1">>})],
   [valid |-> TRUE, value |-> JObject({<<"type", "chat">>})],
   [valid |-> TRUE, value |-> JObject({<<"type", "*">>})],
   [valid |-> TRUE, value |-> JObject({<<"userId", "u1">>})],
   [valid |-> TRUE, value |-> JNull],
   [valid |-> TRUE, value |-> JNumber],
   [valid |-> FALSE, value |-> JNull]}

\* socket.onmessage of the socket s; a socket delivers messages while it is open.
SockMessage(s, payload) ==
  /\ socks[s] = OPEN
  /\ UNCHANGED <<socket, socks, pingTimer, intervals, listeners>>
  /\ ClientRecord(ClientOp("message", s, "", {}, payload,
                           onmessage(listeners, payload), <<>>))

\* socket.onclose of the socket s
SockClose(s) ==
  LET c == cleanup(pingTimer, intervals)
  IN  /\ socks[s] # CLOSED
      /\ socks' = [socks EXCEPT ![s] = CLOSED]
      /\ pingTimer' = c.pingTimer
      /\ intervals' = c.intervals
      /\ UNCHANGED <<socket, listeners>>
      /\ ClientRecord(ClientOp("close", s, "_disconnected", {}, NoPayload,
                               emit(listeners, "_disconnected",
                                    JObject({<<"code", "1006">>, <<"reason", "">>})),
                               <<>>))

\* socket.onerror of the socket s
SockError(s) ==
  /\ socks[s] \in {CONNECTING, OPEN}
  /\ UNCHANGED <<socket, socks, pingTimer, intervals, listeners>>
  /\ ClientRecord(ClientOp("error", s, "_error", {}, NoPayload,
                           emit(listeners, "_error", JObject({<<"error", "event">>})),
                           <<>>))

\* The callback of setInterval(() => this.send('ping', {}), PING_INTERVAL)
PingTick(i) ==
  /\ i \in intervals
  /\ UNCHANGED <<socket, socks, pingTimer, intervals, listeners>>
  /\ ClientRecord(ClientOp("ping", socket, "ping", {}, NoPayload, <<>>,
                           Transmit(socket, socks, "ping", {})))

ClientSpecInit ==
  TTSInit /\ isAndroid = FALSE /\ ChunkIdle /\ VoiceIdle /\ RecIdle /\ ClientInit /\ PointsIdle /\ PagesIdle

ClientNext ==
  \/ connect
  \/ \E type \in SendTypes : \E data \in SendData : send(type, data)
  \/ \E type \in ListenTypes : \E callback \in Handlers : on(type, callback)
  \/ \E type \in ListenTypes : \E callback \in Handlers : unsubscribe(type, callback)
  \/ disconnect
  \/ \E s \in 1..Len(socks) : SockOpen(s)
  \/ \E s \in 1..Len(socks) : \E payload \in Payloads : SockMessage(s, payload)
  \/ \E s \in 1..Len(socks) : SockClose(s)
  \/ \E s \in 1..Len(socks) : SockError(s)
  \/ \E i \in 1..Len(socks) : PingTick(i)

ClientSpec == ClientSpecInit /\ [][ClientNext]_vars

\* ------------------------------------------------------------------ playback to the end
\* The chunked strategy reading one word list to its end: one speak(), an engine that
\* delivers the start and the end event of every utterance it is handed, and gap
\* timers that fire; no stop(), reset(), pause() or engine error.
PlaybackInit == Init /\ isAndroid = TRUE

PlaybackNext ==
  \/ \E words \in ChunkLists : nSess = 0 /\ speak(words)
  \/ EvStart
  \/ EvEnd
  \/ TimerFire

PlaybackSpec ==
  /\ PlaybackInit
  /\ [][PlaybackNext]_vars
  /\ WF_vars(EvStart)
  /\ WF_vars(EvEnd)
  /\ WF_vars(TimerFire)

\* ------------------------------------------------------------------ bonus practice
\* BonusPractice with the hook mounted in it: one bonus is fetched, its lead-in is read,
\* then its first part. bonusPhase is the page's phase; "loading" is PHASE.IDLE with
\* loading = true, between the two halves of fetchBonus.
ReadingPhases == {"reading_leadin", "reading_part"}

BonusInit ==
  /\ TTSInit /\ ChunkIdle /\ VoiceIdle /\ RecIdle /\ ClientInit /\ PointsIdle
  /\ SubmitIdle /\ ThrottleIdle
  /\ bonusPhase = "idle"

\* fetchBonus up to its await
fetchBonus_Request ==
  /\ bonusPhase = "idle"
  /\ reset
  /\ bonusPhase' = "loading"

\* fetchBonus after getRandomBonus has answered with a bonus
fetchBonus_Loaded(words) ==
  /\ bonusPhase = "loading"
  /\ speak(words)
  /\ bonusPhase' = "reading_leadin"

readPart(words) ==
  /\ speak(words)
  /\ bonusPhase' = "reading_part"

\* The effect on [tts.done, phase, bonus, readPart]
DoneEffect ==
  /\ done
  /\ bonusPhase \in ReadingPhases
  /\ IF bonusPhase = "reading_leadin"
     THEN \E words \in WordLists : readPart(words)
     ELSE /\ bonusPhase' = "answering"
          /\ UNCHANGED <<ttsVars, chunkVars, voiceVars, recVars, clientVars, pointsVars,
                         submitVars, throttleVars>>

\* The keydown handler, e.code === 'Space'
SpaceKey ==
  /\ bonusPhase \in ReadingPhases
  /\ stop
  /\ UNCHANGED bonusPhase

BonusNext ==
  \/ fetchBonus_Request
  \/ \E words \in WordLists : fetchBonus_Loaded(words)
  \/ DoneEffect
  \/ SpaceKey
  \/ EvStart /\ UNCHANGED bonusPhase
  \/ EvBoundary /\ UNCHANGED bonusPhase
  \/ EvEnd /\ UNCHANGED bonusPhase
  \/ EvError /\ UNCHANGED bonusPhase
  \/ LateStart /\ UNCHANGED bonusPhase
  \/ LateBoundary /\ UNCHANGED bonusPhase
  \/ LateEnd /\ UNCHANGED bonusPhase
  \/ LateError /\ UNCHANGED bonusPhase
  \/ TimerFire /\ UNCHANGED bonusPhase

\* The answer of the server arrives, the engine delivers the events of what it is
\* handed, timers fire and effects run.
BonusSpec ==
  /\ BonusInit
  /\ [][BonusNext]_vars
  /\ WF_vars(\E words \in WordLists : fetchBonus_Loaded(words))
  /\ WF_vars(DoneEffect)
  /\ WF_vars(EvStart /\ UNCHANGED bonusPhase)
  /\ WF_vars(EvEnd /\ UNCHANGED bonusPhase)
  /\ WF_vars(TimerFire /\ UNCHANGED bonusPhase)

\* ------------------------------------------------------------------ tossup scoring
\* calcTossupPoints awarding the power to a buzz on the marked word itself
calcTossupPoints_PowerOnMark(d, power, buzz) ==
  IF d = "accept" THEN (IF power >= 0 /\ buzz <= power THEN 15 ELSE 10)
  ELSE IF d = "reject" THEN -5
  ELSE 0

calcTossupPoints(d, power, buzz) ==
  IF d = "accept" THEN (IF power >= 0 /\ buzz < power THEN 15 ELSE 10)
  ELSE IF d = "reject" THEN -5
  ELSE 0

\* The directives checkanswer returns and one it does not; the positions of the power
\* mark (-1: none) and of the buzz (-1: before the first word was revealed).
Directives == {"accept", "reject", "prompt", "unknown"}
Indexes == -1..MaxIndex

PointsInit ==
  /\ TTSInit /\ isAndroid = FALSE /\ ChunkIdle /\ VoiceIdle /\ RecIdle /\ ClientInit
  /\ PagesIdle
  /\ directive \in Directives
  /\ powerIndex \in Indexes
  /\ buzzIndex \in Indexes
  /\ points = 0
  /\ pphase = "input"

PointsScore ==
  /\ pphase = "input"
  /\ points' = calcTossupPoints(directive, powerIndex, buzzIndex)
  /\ pphase' = "scored"
  /\ UNCHANGED <<directive, powerIndex, buzzIndex>>
  /\ UNCHANGED <<ttsVars, chunkVars, voiceVars, recVars, clientVars, pageVars>>

PointsNext == PointsScore

PointsSpec == PointsInit /\ [][PointsNext]_vars

\* ------------------------------------------------------------------ answer submission
\* TossupPractice after the buzz: the question is loaded (tossup is not null), the page
\* is in PHASE.BUZZING, and answers arrive from the keyboard and from the recogniser.
SubmitOp(op, n, d, issued) == [op |-> op, n |-> n, directive |-> d, issued |-> issued]

AnswerTexts == {<<>>, <<" ">>, <<"a">>, <<" ", "a">>}

updateTossupScore(prev, pts) ==
  [correct |-> prev.correct + (IF pts > 0 THEN 1 ELSE 0),
   neg |-> prev.neg + (IF pts < 0 THEN 1 ELSE 0),
   total |-> prev.total + pts,
   questions |-> prev.questions + 1]

SubmitInit ==
  /\ TTSInit /\ isAndroid = FALSE /\ ChunkIdle /\ VoiceIdle /\ RecIdle /\ ClientInit
  /\ bonusPhase = Unmounted /\ ThrottleIdle
  /\ directive = "accept" /\ points = 0 /\ pphase = "input"
  /\ powerIndex \in Indexes
  /\ buzzIndex \in Indexes
  /\ submittingRef = FALSE
  /\ pending = {}
  /\ submitResult = "null"
  /\ score = NoScore
  /\ tossupPhase = "buzzing"
  /\ submitError = FALSE
  /\ nSubmits = 0
  /\ slast = NoSubmit

SubmitFrame ==
  UNCHANGED <<ttsVars, chunkVars, voiceVars, recVars, clientVars, pointsVars, bonusPhase,
              throttleVars>>

\* doSubmit without the test of submittingRef
doSubmit_NoGuard(answerText) ==
  /\ nSubmits < MaxSubmits
  /\ nSubmits' = nSubmits + 1
  /\ IF Trim(answerText) = <<>>
     THEN /\ slast' = SubmitOp("doSubmit", nSubmits + 1, "", FALSE)
          /\ UNCHANGED <<submittingRef, pending>>
     ELSE /\ submittingRef' = TRUE
          /\ pending' = pending \cup {nSubmits + 1}
          /\ slast' = SubmitOp("doSubmit", nSubmits + 1, "", TRUE)
  /\ UNCHANGED <<submitResult, score, tossupPhase, submitError>>
  /\ SubmitFrame

\* doSubmit up to its await
doSubmit(answerText) ==
  /\ nSubmits < MaxSubmits
  /\ nSubmits' = nSubmits + 1
  /\ IF Trim(answerText) = <<>> \/ submittingRef
     THEN /\ slast' = SubmitOp("doSubmit", nSubmits + 1, "", FALSE)
          /\ UNCHANGED <<submittingRef, pending>>
     ELSE /\ submittingRef' = TRUE
          /\ pending' = pending \cup {nSubmits + 1}
          /\ slast' = SubmitOp("doSubmit", nSubmits + 1, "", TRUE)
  /\ UNCHANGED <<submitResult, score, tossupPhase, submitError>>
  /\ SubmitFrame

handleVoiceFinal(text) ==
  /\ tossupPhase = "buzzing"
  /\ doSubmit(text)

handleSubmit(answer) ==
  /\ tossupPhase = "buzzing"
  /\ Trim(answer) # <<>>
  /\ doSubmit(answer)

\* doSubmit after checkAnswer has answered
CheckResolves(n, d) ==
  LET pts == calcTossupPoints(d, powerIndex, buzzIndex)
  IN  /\ n \in pending
      /\ pending' = pending \ {n}
      /\ submitResult' = [directive |-> d, points |-> pts, isPower |-> (pts = 15)]
      /\ IF d # "prompt"
         THEN /\ score' = updateTossupScore(score, pts)
              /\ tossupPhase' = "result"
         ELSE UNCHANGED <<score, tossupPhase>>
      /\ submittingRef' = FALSE
      /\ slast' = SubmitOp("resolved", n, d, FALSE)
      /\ UNCHANGED <<submitError, nSubmits>>
      /\ SubmitFrame

\* doSubmit after checkAnswer has thrown
CheckFails(n) ==
  /\ n \in pending
  /\ pending' = pending \ {n}
  /\ submitError' = TRUE
  /\ submittingRef' = FALSE
  /\ slast' = SubmitOp("failed", n, "", FALSE)
  /\ UNCHANGED <<submitResult, score, tossupPhase, nSubmits>>
  /\ SubmitFrame

SubmitNext ==
  \/ \E text \in AnswerTexts : handleVoiceFinal(text)
  \/ \E answer \in AnswerTexts : handleSubmit(answer)
  \/ \E n \in pending, d \in Directives : CheckResolves(n, d)
  \/ \E n \in pending : CheckFails(n)

SubmitSpec == SubmitInit /\ [][SubmitNext]_vars

\* ------------------------------------------------------------------ throttled requests
\* The HTTP wrapper of the REST client. Time is counted in steps of TimeStep ms from
\* StartTime, a clock reading more than RATE_LIMIT_MS after the epoch; a timeout fires
\* when it is due or later.
RATE_LIMIT_MS == 50
TimeStep == RATE_LIMIT_MS \div 2
StartTime == 2 * RATE_LIMIT_MS
EndTime == StartTime + MaxTicks * TimeStep

ThrottleInit ==
  /\ TTSInit /\ isAndroid = FALSE /\ ChunkIdle /\ VoiceIdle /\ RecIdle /\ ClientInit
  /\ PointsIdle /\ bonusPhase = Unmounted /\ SubmitIdle
  /\ now = StartTime
  /\ lastRequestTime = 0
  /\ waiting = <<>>
  /\ requests = <<>>

ThrottleFrame ==
  UNCHANGED <<ttsVars, chunkVars, voiceVars, recVars, clientVars, pointsVars, bonusPhase,
              submitVars>>

\* The clock advances.
Tick ==
  /\ now < EndTime
  /\ now' = now + TimeStep
  /\ UNCHANGED <<lastRequestTime, waiting, requests>>
  /\ ThrottleFrame

\* throttledRequest up to its await, or to the end when it does not wait
throttledRequest ==
  LET elapsed == now - lastRequestTime
  IN  /\ Len(requests) + Len(waiting) < MaxCalls
      /\ IF elapsed < RATE_LIMIT_MS
         THEN /\ waiting' = Append(waiting, now + (RATE_LIMIT_MS - elapsed))
              /\ UNCHANGED <<lastRequestTime, requests>>
         ELSE /\ lastRequestTime' = now
              /\ requests' = Append(requests, now)
              /\ UNCHANGED waiting
      /\ UNCHANGED now
      /\ ThrottleFrame

\* throttledRequest after its timeout
Wake(i) ==
  /\ waiting[i] <= now
  /\ waiting' = SubSeq(waiting, 1, i - 1) \o SubSeq(waiting, i + 1, Len(waiting))
  /\ lastRequestTime' = now
  /\ requests' = Append(requests, now)
  /\ UNCHANGED now
  /\ ThrottleFrame

ThrottleNext ==
  \/ Tick
  \/ throttledRequest
  \/ \E i \in DOMAIN waiting : Wake(i)

ThrottleSpec == ThrottleInit /\ [][ThrottleNext]_vars

\* ------------------------------------------------------------------ properties
Callbacks == {"start", "boundary", "end", "error", "timer"}

\* No playback session is active: none was started, or the latest one was stopped,
\* reset or has finished.
NoSession == nSess = 0 \/ halted \/ done

\* C1: once speak() has started a new session, no start, boundary, end or error
\* callback and no inter-chunk timer of an earlier session changes wordIndex, done or
\* speaking or hands an utterance to the engine; done becomes true for a non-empty
\* reading only through an end callback of the current session.
C1_SupersededSessionIsInert ==
  [][ /\ (last'.op \in Callbacks /\ last'.sess < nSess)
         => (UNCHANGED <<wordIndex, done, speaking>> /\ last'.handed = 0)
      /\ (~done /\ done' /\ Len(wordsRef') > 0)
         => (last'.op = "end" /\ last'.sess = nSess) ]_vars

\* C2: between the return of stop() or reset() and the next speak(), every start,
\* boundary and end callback and every inter-chunk timer leaves wordIndex, done,
\* speaking and paused as they were and hands nothing to the engine.
C2_CallbacksAfterCancelAreNoOps ==
  [][ (halted /\ last'.op \in {"start", "boundary", "end", "timer"})
      => /\ UNCHANGED <<wordIndex, done, speaking, paused>>
         /\ last'.handed = 0
         /\ Len(queue') <= Len(queue) ]_vars

\* An inter-chunk timer of the current session fired after stop().
C2_Witness ==
  halted /\ last.op = "timer" /\ last.sess = nSess /\ wordIndex >= 0

\* C3: while the session is not cancelled, after each start, boundary or end event
\* of the session wordIndex is the maximum of its value before the event and the
\* position the event reports; and only speak() and reset() ever lower wordIndex.
C3_CursorOnlyAdvances ==
  [][ /\ (~halted /\ last'.op \in {"start", "boundary", "end"} /\ last'.sess = nSess)
         => wordIndex' = Max(wordIndex, last'.pos)
      /\ (last'.op \notin {"speak", "reset"}) => wordIndex' >= wordIndex ]_vars

\* A boundary event reported a position behind the cursor.
C3_Witness ==
  /\ ~halted
  /\ last.op = "boundary"
  /\ last.sess = nSess
  /\ last.pos # NoPos
  /\ last.pos < wordIndex

\* C4: the value stop() returns is the observable wordIndex at the time of the call
\* (stop() does not change wordIndex), -1 when nothing was revealed.
C4_StopReturnsWordIndex ==
  last.op = "stop" => last.ret = wordIndex

\* C5: after speak(words), from any phase: with words, wordIndex = -1, done = false,
\* speaking = true, paused = false and an utterance of the new session is in the
\* engine; without words, speaking = false, done = true, wordIndex = -1 and nothing
\* was handed to the engine.
C5_SpeakResetsTheState ==
  last.op = "speak" =>
    IF Len(wordsRef) > 0
    THEN /\ wordIndex = -1 /\ ~done /\ speaking /\ ~paused
         /\ last.handed >= 1
         /\ \E i \in 1..Len(queue) : queue[i].sess = nSess /\ queue[i].words = wordsRef
    ELSE /\ ~speaking /\ done /\ wordIndex = -1
         /\ last.handed = 0
         /\ queue = <<>>

\* speak() with words was called while an earlier reading was paused.
C5_Witness ==
  last.op = "speak" /\ last.from = "paused" /\ Len(wordsRef) > 0 /\ nSess > 1

\* C6: pause() sets paused and resume() clears it; neither changes wordIndex, done,
\* speaking, the words or the cancelled flag, nor what the engine holds of the
\* session, so the session goes on from the same cursor.
C6_PauseResumeKeepTheSession ==
  [][ /\ last'.op = "pause" => paused'
      /\ last'.op = "resume" => ~paused'
      /\ last'.op \in {"pause", "resume"}
         => UNCHANGED <<wordIndex, done, speaking, wordsRef, cancelledRef,
                        currentIndexRef, queue, timers>> ]_vars

\* A reading paused part-way was resumed and is still in the engine.
C6_Witness ==
  /\ last.op = "resume"
  /\ last.from = "paused"
  /\ speaking /\ ~cancelledRef
  /\ wordIndex >= 0
  /\ Len(queue) > 0

\* C7: pause(), resume(), stop() and reset() called when no playback session is
\* active leave speaking, paused, done and wordIndex exactly as they were.
C7_ControlsAreNoOpsWithoutSession ==
  [][ (NoSession /\ last'.op \in {"pause", "resume", "stop", "reset"})
      => UNCHANGED <<speaking, paused, done, wordIndex>> ]_vars

\* C8: stop() and reset() called when no session is active leave speaking = false,
\* and stop() (reset()) called right after stop() (reset()) changes none of
\* speaking, paused, done, wordIndex.
C8_StopResetIdempotent ==
  [][ /\ (NoSession /\ last'.op \in {"stop", "reset"}) => ~speaking'
      /\ (last'.op \in {"stop", "reset"} /\ last'.rep)
         => UNCHANGED <<speaking, paused, done, wordIndex>> ]_vars

\* stop() was called twice in a row on a reading that had revealed words.
C8_Witness ==
  last.op = "stop" /\ last.rep /\ wordIndex >= 0

\* C9: an utterance error of kind canceled or interrupted changes none of
\* speaking, paused, done, wordIndex; any other kind sets speaking = false and
\* leaves wordIndex and done; neither hands an utterance to the engine nor starts
\* a timer that would.
C9_EngineErrors ==
  [][ last'.op = "error" =>
        /\ IF last'.kind \in {"canceled", "interrupted"}
           THEN UNCHANGED <<speaking, paused, done, wordIndex>>
           ELSE ~speaking' /\ UNCHANGED <<done, wordIndex>>
        /\ last'.handed = 0
        /\ Len(queue') <= Len(queue)
        /\ \A i \in 1..Len(queue') : queue'[i] \in Range(queue)
        /\ timers' = timers ]_vars

\* A synthesis failure ended a reading that was speaking.
C9_Witness ==
  /\ last.op = "error"
  /\ last.kind = "synthesis-failed"
  /\ last.from = "speaking"
  /\ last.sess = nSess
  /\ ~speaking /\ ~done

\* C10: the chunks of a word list of length n come in increasing order, the first
\* starts at 0, each next one starts right after the previous one ends, the last ends
\* at n - 1 and no chunk is empty; no words give no chunks, one word gives the chunk
\* [0, 0].
IsPartition(n, chunks) ==
  /\ (n = 0) = (Len(chunks) = 0)
  /\ n > 0 =>
       /\ chunks[1].startIndex = 0
       /\ chunks[Len(chunks)].endIndex = n - 1
  /\ \A k \in 1..Len(chunks) : chunks[k].startIndex <= chunks[k].endIndex
  /\ \A k \in 1..(Len(chunks) - 1) : chunks[k + 1].startIndex = chunks[k].endIndex + 1

C10_ChunksPartitionTheWords ==
  cphase = "built" =>
    /\ IsPartition(Len(cwords), cchunks)
    /\ Len(cwords) = 0 => cchunks = <<>>
    /\ Len(cwords) = 1 =>
         (Len(cchunks) = 1 /\ cchunks[1].startIndex = 0 /\ cchunks[1].endIndex = 0)

\* A list was split into several chunks, one of them of several words.
C10_Witness ==
  /\ cphase = "built"
  /\ Len(cchunks) >= 2
  /\ \E k \in 1..Len(cchunks) : cchunks[k].startIndex < cchunks[k].endIndex

\* The token ends with one of . ? ! ; , :
EndsClause(w) ==
  Len(w) > 0 /\ \E c \in {".", "?", "!", ";", ",", ":"} : w[Len(w)] = c

ChunkEnds == {cchunks[k].endIndex : k \in 1..Len(cchunks)}

\* text is the tokens ws, in order, with one space between neighbours.
RECURSIVE SpacedText(_, _)
SpacedText(text, ws) ==
  IF Len(ws) = 0 THEN text = <<>>
  ELSE IF Len(ws) = 1 THEN text = ws[1]
  ELSE LET n == Len(ws[1])
       IN  /\ Len(text) > n
           /\ SubSeq(text, 1, n) = ws[1]
           /\ text[n + 1] = " "
           /\ SpacedText(SubSeq(text, n + 2, Len(text)), Tail(ws))

TagStartsWithEn(v) == Len(v.lang) >= 2 /\ v.lang[1] = "e" /\ v.lang[2] = "n"

\* C13: the selected voice is the voice whose id equals the preferred id whenever
\* such a voice is listed, even when an English voice comes earlier; otherwise the
\* first listed voice whose language tag starts with 'en'; otherwise the first listed
\* voice, or none when the list is empty.
C13_VoiceSelectionOrder ==
  vphase = "chosen" =>
    LET n == Len(voiceList)
        listed == voiceURIRef # "" /\ \E i \in 1..n : voiceList[i].voiceURI = voiceURIRef
        someEn == \E i \in 1..n : TagStartsWithEn(voiceList[i])
    IN  /\ listed =>
             \E i \in 1..n : voice = voiceList[i] /\ voice.voiceURI = voiceURIRef
        /\ (~listed /\ someEn) =>
             \E i \in 1..n :
               /\ voice = voiceList[i]
               /\ TagStartsWithEn(voiceList[i])
               /\ \A j \in 1..(i - 1) : ~TagStartsWithEn(voiceList[j])
        /\ (~listed /\ ~someEn /\ n > 0) => voice = voiceList[1]
        /\ (~listed /\ n = 0) => voice = NoVoice

\* The preferred voice is not English and is listed after an English voice; it is
\* the one selected.
C13_Witness ==
  /\ vphase = "chosen"
  /\ Len(voiceList) >= 2
  /\ TagStartsWithEn(voiceList[1])
  /\ voiceList[1].voiceURI # voiceURIRef
  /\ voice.voiceURI = voiceURIRef
  /\ ~TagStartsWithEn(voice)

\* C14: if stop() is called before any final result of the current recognition session
\* has arrived, the final-result callback is not invoked afterwards for that session.
C14_NoFinalResultAfterStop ==
  (rlast.op = "onresult" /\ rsess[rlast.sess].early)
    => \A k \in 1..Len(rlast.calls) : rlast.calls[k].cb # "onFinalResult"

\* The texts of the slots k, k + 1, ... of rs that are final (f) or interim (~f), in
\* order, one after the other.
RECURSIVE SlotText(_, _, _)
SlotText(rs, k, f) ==
  IF k > Len(rs) THEN <<>>
  ELSE (IF rs[k].isFinal = f THEN rs[k].transcript ELSE <<>>) \o SlotText(rs, k + 1, f)

\* t is s without the spaces at its two ends.
IsTrimOf(t, s) ==
  /\ \E i \in 1..(Len(s) + 1) : \E j \in 0..Len(s) :
       /\ t = SubSeq(s, i, j)
       /\ \A k \in 1..(i - 1) : s[k] = " "
       /\ \A k \in (j + 1)..Len(s) : s[k] = " "
  /\ Len(t) > 0 => (t[1] # " " /\ t[Len(t)] # " ")

\* C15: for a result event, over the slots from resultIndex on: if the final slots
\* have text, transcript becomes that text and the interim-result callback is invoked
\* with it and then the final-result callback once with the trimmed text; if only the
\* interim slots have text, transcript becomes it and only the interim-result callback
\* is invoked; if neither has text, transcript is unchanged and nothing is invoked.
C15_ResultHandling ==
  [][ rlast'.op = "onresult" =>
        LET ev == rlast'.ev
            finalText == SlotText(ev.results, ev.resultIndex + 1, TRUE)
            interimText == SlotText(ev.results, ev.resultIndex + 1, FALSE)
            calls == rlast'.calls
        IN  /\ finalText # <<>> =>
                 /\ transcript' = finalText
                 /\ Len(calls) = 2
                 /\ calls[1] = [cb |-> "onInterimResult", arg |-> finalText]
                 /\ calls[2].cb = "onFinalResult"
                 /\ IsTrimOf(calls[2].arg, finalText)
            /\ (finalText = <<>> /\ interimText # <<>>) =>
                 /\ transcript' = interimText
                 /\ calls = <<[cb |-> "onInterimResult", arg |-> interimText]>>
            /\ (finalText = <<>> /\ interimText = <<>>) =>
                 /\ transcript' = transcript
                 /\ calls = <<>> ]_vars

\* A result event whose resultIndex skips a final slot with text; the final text
\* from there on had spaces to trim.
C15_Witness ==
  /\ rlast.op = "onresult"
  /\ rlast.ev.resultIndex >= 1
  /\ rlast.ev.results[1].isFinal /\ rlast.ev.results[1].transcript # <<>>
  /\ Len(rlast.calls) = 2
  /\ rlast.calls[2].arg # rlast.calls[1].arg

\* C16: after stop() the session reference is cleared, listening is false and the
\* stopped-manually flag is set; transcript is as before; a stop() with no session,
\* and a stop() right after a stop(), issues no abort and leaves the state as it was.
C16_StopIdempotent ==
  [][ rlast'.op = "stop" =>
        /\ recognitionRef' = 0 /\ ~listening' /\ stoppedManuallyRef'
        /\ transcript' = transcript
        /\ recognitionRef = 0 => (rlast'.aborts = 0 /\ rsess' = rsess)
        /\ rlast.op = "stop" =>
             /\ rlast'.aborts = 0
             /\ UNCHANGED <<listening, transcript, supported, recognitionRef,
                            stoppedManuallyRef, rsess>> ]_vars

\* stop() found no session reference, after an earlier stop() had aborted a session.
C16_Witness ==
  /\ rlast.op = "stop"
  /\ rlast.sess = 0
  /\ \E s \in 1..Len(rsess) : rsess[s].early

\* C17: start() changes nothing and creates no session when recognition is
\* unsupported; otherwise it aborts the session it finds; at most one session exists
\* that was not aborted; listening becomes true only in the start event of a session.
C17_StartKeepsOneSession ==
  [][ /\ (rlast'.op = "start" /\ ~supported) =>
           /\ UNCHANGED <<listening, transcript, supported, recognitionRef,
                          stoppedManuallyRef, rsess>>
           /\ rlast'.made = 0
      /\ (rlast'.op = "start" /\ supported /\ recognitionRef # 0) =>
           rsess'[recognitionRef].aborted
      /\ Cardinality({s \in 1..Len(rsess') : ~rsess'[s].aborted}) <= 1
      /\ (~listening /\ listening') => rlast'.op = "onstart" ]_vars

\* A second start() aborted the session that was listening.
C17_Witness ==
  /\ rlast.op = "start"
  /\ rlast.aborts = 1
  /\ Len(rsess) >= 2
  /\ rsess[1].st = "started" /\ rsess[1].aborted /\ ~rsess[2].aborted

\* The message is a JSON object with a type field.
HasType(payload) ==
  /\ payload.valid
  /\ payload.value.kind = "object"
  /\ \E p \in payload.value.obj : p[1] = "type"

TypeField(payload) == (CHOOSE p \in payload.value.obj : p[1] = "type")[2]

\* The handlers registered for a type.
Registered(t) ==
  IF t \in ListenTypes THEN {listeners[t][k] : k \in 1..Len(listeners[t])} ELSE {}

\* The invocations in calls are those of a message msg of type t: one of each handler
\* registered for t with (msg), one of each wildcard handler with (t, msg), no other.
DispatchedOnce(calls, t, msg) ==
  /\ \A h \in Registered(t) :
       Cardinality({k \in 1..Len(calls) : calls[k] = [h |-> h, args |-> <<msg>>]}) = 1
  /\ \A h \in Registered("*") :
       Cardinality({k \in 1..Len(calls) : calls[k] = [h |-> h, args |-> <<t, msg>>]}) = 1
  /\ \A k \in 1..Len(calls) : calls[k].h \in Registered(t) \cup Registered("*")
  /\ Len(calls) = Cardinality(Registered(t)) + Cardinality(Registered("*"))

\* C18: for an inbound message that is JSON with a type field t, each handler
\* registered for t is invoked exactly once with the message, each wildcard handler
\* exactly once with (t, message), and handlers of other types are not invoked.
C18_ProtocolDispatch ==
  (clast.op = "message" /\ HasType(clast.payload))
    => DispatchedOnce(clast.calls, TypeField(clast.payload), clast.payload.value)

\* A join message reached two handlers for join and a wildcard handler.
C18_Witness ==
  /\ clast.op = "message"
  /\ HasType(clast.payload)
  /\ TypeField(clast.payload) = "join"
  /\ Len(listeners["join"]) = 2
  /\ Len(listeners["*"]) = 1
  /\ Len(clast.calls) = 3

\* C19: an inbound payload that is not JSON invokes no handler, leaves the socket,
\* the keepalive timer and the registrations as they were, and the well-formed
\* message after it is dispatched as any other.
C19_MalformedMessageTolerance ==
  [][ /\ (clast'.op = "message" /\ ~clast'.payload.valid) =>
           /\ clast'.calls = <<>>
           /\ UNCHANGED <<socket, socks, pingTimer, intervals, listeners>>
      /\ (/\ clast.op = "message" /\ ~clast.payload.valid
          /\ clast'.op = "message" /\ HasType(clast'.payload)) =>
           DispatchedOnce(clast'.calls, TypeField(clast'.payload),
                          clast'.payload.value) ]_vars

\* Text that is not JSON arrived on the open socket of a client with a wildcard
\* handler and a running keepalive timer.
C19_Witness ==
  /\ clast.op = "message"
  /\ ~clast.payload.valid
  /\ socket = clast.sock
  /\ socks[socket] = OPEN
  /\ pingTimer \in intervals
  /\ Len(listeners["*"]) > 0

\* C20: send(type, data) transmits nothing and changes nothing when the client has no
\* socket or its socket is not open; when it is open, one message is transmitted whose
\* type field is the type argument and whose other fields are the fields of data.
C20_SendTransmitsTypeAndData ==
  [][ clast'.op = "send" =>
        /\ UNCHANGED <<socket, socks, pingTimer, intervals, listeners>>
        /\ IF socket # 0 /\ socks[socket] = OPEN
           THEN /\ Len(clast'.sent) = 1
                /\ <<"type", clast'.type>> \in clast'.sent[1].msg
                /\ {p \in clast'.sent[1].msg : p[1] # "type"}
                     = {p \in clast'.data : p[1] # "type"}
           ELSE clast'.sent = <<>> ]_vars


\* The event types a subscriber can be asked about, and the message of each.
EventTypes == {"join", "chat", "*"}
EventOf(e) == JObject({<<"type", e>>})

\* The invocation c, made for an event of type e carrying d, is owed to the
\* registration of h for t: the typed form for t itself, the wildcard form for '*'.
OwedTo(c, t, h, e, d) ==
  /\ c.h = h
  /\ IF t = "*" THEN c.args = <<e, d>> \/ (e = "*" /\ c.args = <<d>>)
     ELSE e = t /\ c.args = <<d>>

\* C21: once the function on(type, handler) returned has been called, an event of
\* any type reaches exactly the registrations it reached before, in the same order,
\* less the one of handler for type: the other handlers of the type and the handler's
\* registrations for other types still receive it. Calling the function when the
\* handler is no longer registered changes no registration, and no call of it
\* touches the connection or the keepalive timer.
C21_Unsubscribe ==
  [][clast'.op = "unsubscribe" =>
       /\ \A e \in EventTypes :
            emit(listeners', e, EventOf(e)) =
              SelectSeq(emit(listeners, e, EventOf(e)),
                        LAMBDA c : ~OwedTo(c, clast'.type, clast'.h, e, EventOf(e)))
       /\ \A k \in 1..Len(listeners'[clast'.type]) :
            listeners'[clast'.type][k] # clast'.h
       /\ (\A k \in 1..Len(listeners[clast'.type]) :
             listeners[clast'.type][k] # clast'.h) => listeners' = listeners
       /\ UNCHANGED <<socket, socks, pingTimer, intervals>>]_vars

C21_Witness ==
  /\ clast.op = "unsubscribe" /\ clast.type = "join" /\ clast.h = "h1"
  /\ listeners["join"] = <<"h2">>
  /\ listeners["*"] = <<"h1">>


\* The last operation dispatched an event to the subscribers, and the type it
\* dispatched.
Dispatched(o) ==
  \/ o.op \in {"open", "close", "error"}
  \/ o.op = "message" /\ o.payload.valid /\ o.payload.value.kind # "null"

DispatchedType(o) ==
  IF o.op # "message" THEN o.type
  ELSE IF HasType(o.payload) THEN TypeField(o.payload) ELSE Undefined

\* The handlers an event of type t is owed to, in dispatch order.
Audience(t) == (IF t \in ListenTypes THEN listeners[t] ELSE <<>>) \o listeners["*"]

\* C22: when a handler throws while an event is dispatched, the dispatch still
\* invokes every handler registered for the event, once each and in order, those
\* after the throwing one included; the registrations are kept; a message or error
\* event leaves the socket and the keepalive timer as they were and an open event
\* still starts the keepalive timer; every later event is dispatched the same way.
C22_HandlerExceptionIsolation ==
  [][(Dispatched(clast') /\ \E k \in 1..Len(clast'.calls) : clast'.calls[k].h \in Throwing)
       => /\ [k \in 1..Len(clast'.calls) |-> clast'.calls[k].h]
               = Audience(DispatchedType(clast'))
          /\ UNCHANGED listeners
          /\ clast'.op \in {"message", "error"} =>
               UNCHANGED <<socket, socks, pingTimer, intervals>>
          /\ clast'.op = "open" =>
               /\ socks'[clast'.sock] = OPEN
               /\ pingTimer' = clast'.sock
               /\ clast'.sock \in intervals'
          /\ clast'.op = "close" => socks'[clast'.sock] = CLOSED]_vars

\* A join message reached the throwing handler first and the handler after it.
C22_Witness ==
  /\ clast.op = "message"
  /\ HasType(clast.payload) /\ TypeField(clast.payload) = "join"
  /\ listeners["join"] = <<"h2", "h1">>
  /\ Len(clast.calls) >= 2
  /\ clast.calls[1].h \in Throwing
  /\ clast.calls[2].h = "h1"


\* The client's transport is open.
TransportOpen == socket # 0 /\ socks[socket] = OPEN

\* C23: a keepalive timer is running exactly while the client's transport is open,
\* at most one keepalive timer is running, and a ping is transmitted only on an
\* open transport.
C23_KeepaliveLifetime ==
  /\ (intervals # {}) <=> TransportOpen
  /\ Cardinality(intervals) <= 1
  /\ (clast.op = "ping" /\ clast.sent # <<>>) =>
       \A k \in 1..Len(clast.sent) : socks[clast.sent[k].sock] = OPEN

\* disconnect() has returned and connect() has not been called since.
Disconnected == socket = 0 /\ Len(socks) > 0

\* C24: from the return of disconnect() until the next connect(), no keepalive timer
\* is running, a timer tick transmits no ping, and a message is dispatched to
\* handlers only from a transport that is not closed.
C24_AfterDisconnect ==
  Disconnected =>
    /\ intervals = {}
    /\ clast.op = "ping" => clast.sent = <<>>
    /\ (clast.op = "message" /\ clast.calls # <<>>) => socks[clast.sock] = OPEN

\* C25: when a transport closes that disconnect() has not closed, its keepalive
\* timer is no longer running when the subscribers are notified, the wildcard
\* subscribers get exactly one _disconnected event each, carrying code and reason,
\* and no transport is opened.
C25_UnexpectedClose ==
  [][(clast'.op = "close" /\ socks[clast'.sock] \in {CONNECTING, OPEN}) =>
       /\ clast'.sock \notin intervals'
       /\ clast'.calls =
            [k \in 1..Len(listeners["*"]) |->
               Invoke(listeners["*"][k],
                      <<"_disconnected",
                        JObject({<<"code", "1006">>, <<"reason", "">>})>>)]
       /\ Len(socks') = Len(socks)
       /\ socket' = socket]_vars


\* C26: calcTossupPoints returns 15 exactly when the directive is accept, there is
\* a power mark and the buzz came before it; 10 for every other accept; -5 for
\* reject; 0 for prompt and for any other directive.
C26_TossupPoints ==
  pphase = "scored" =>
    /\ points = 15 <=> (directive = "accept" /\ powerIndex >= 0 /\ buzzIndex < powerIndex)
    /\ (directive = "accept" /\ ~(powerIndex >= 0 /\ buzzIndex < powerIndex))
         => points = 10
    /\ directive = "reject" => points = -5
    /\ directive \notin {"accept", "reject"} => points = 0

\* An accepted buzz on the marked word itself was scored.
C26_Witness ==
  /\ pphase = "scored"
  /\ directive = "accept"
  /\ powerIndex = 3 /\ buzzIndex = 3
  /\ points = 10


\* The chunks of a session the engine holds, the chunks whose 150 ms gap is running,
\* and the sessions spoken in chunks so far.
HeldChunks(q) == {<<q[i].sess, q[i].c>> : i \in {j \in 1..Len(q) : q[j].chunked}}
GapChunks(ts) == {<<t.sess, t.c>> : t \in ts}
HeldCount(q, s) == Cardinality({i \in 1..Len(q) : q[i].chunked /\ q[i].sess = s})
GapCount(ts, s) == Cardinality({t \in ts : t.sess = s})

InChunkedSession ==
  \/ \E i \in 1..Len(queue) : queue[i].chunked /\ queue[i].sess = nSess
  \/ \E t \in timers : t.sess = nSess

LatestStarted ==
  IF \E i \in 1..Len(queue) : queue[i].chunked /\ queue[i].sess = nSess
  THEN LET u == queue[CHOOSE i \in 1..Len(queue) :
                        queue[i].chunked /\ queue[i].sess = nSess]
       IN  IF u.started THEN u.c ELSE u.c - 1
  ELSE (CHOOSE t \in timers : t.sess = nSess).c - 1

\* C28: the start callback of a chunk, when the session is not cancelled, sets
\* wordIndex to the larger of its value and the chunk's endIndex; and while a chunked
\* session is under way wordIndex is not beyond the endIndex of the latest chunk of
\* that session that has started (-1 before the first start).
C28_ChunkReveal ==
  [][/\ (last'.op = "start" /\ isAndroid /\ ~cancelledRef) =>
          wordIndex' = Max(wordIndex, last'.pos)
     /\ (InChunkedSession /\ ~cancelledRef /\ ~done)' =>
          (wordIndex <= (IF LatestStarted >= 0
                         THEN buildChunks(wordsRef)[LatestStarted + 1].endIndex
                         ELSE -1))']_vars

\* The utterance a callback of the current session's last utterance belongs to: the
\* single utterance, or the last chunk.
IsLastUtterance(u) ==
  /\ u.sess = nSess
  /\ u.words = wordsRef
  /\ ~u.chunked \/ u.c = Len(buildChunks(u.words)) - 1

\* C29: done becomes true for non-empty words only in the end callback of the last
\* utterance of the current session, and then wordIndex = Len(words) - 1, speaking
\* and paused are false; the end callback of a chunk that is not the last one leaves
\* done unchanged.
C29_Completion ==
  [][/\ (~done /\ done' /\ Len(wordsRef') > 0) =>
          /\ last'.op = "end"
          /\ \/ Len(queue) > 0 /\ queue' = Tail(queue) /\ IsLastUtterance(queue[1])
             \/ \E z \in zombies \ zombies' : IsLastUtterance(z)
          /\ wordIndex' = Len(wordsRef') - 1
          /\ ~speaking' /\ ~paused'
     /\ (last'.op = "end" /\ last'.pos = NoPos) => done' = done]_vars


\* start_i: the lengths of the words before word i (0-based), plus i.
RECURSIVE LengthsBefore(_, _)
LengthsBefore(words, i) ==
  IF i = 0 THEN 0 ELSE LengthsBefore(words, i - 1) + Len(words[i])

WordStart(words, i) == LengthsBefore(words, i) + i

\* The greatest i with start_i <= o; word 0 if there is none.
WordAtOffset(words, o) ==
  LET at == {i \in 0..(Len(words) - 1) : WordStart(words, i) <= o}
  IN  IF at = {} THEN 0 ELSE CHOOSE i \in at : \A j \in at : j <= i

\* C30: in the single-utterance strategy a word boundary event at character offset
\* o advances the cursor to the greatest i with start_i <= o, the cursor never
\* moving back; a boundary event of another name leaves the cursor where it was;
\* the start callback advances the cursor to 0.
C30_BoundaryLookup ==
  [][/\ (last'.op = "boundary" /\ last'.kind = "word") =>
          /\ wordIndex' = Max(wordIndex, WordAtOffset(queue[1].words, last'.pos))
          /\ currentIndexRef' =
               Max(currentIndexRef, WordAtOffset(queue[1].words, last'.pos))
     /\ (last'.op = "boundary" /\ last'.kind # "word") =>
          UNCHANGED <<wordIndex, currentIndexRef>>
     /\ last'.op = "start" =>
          /\ wordIndex' = Max(wordIndex, 0)
          /\ currentIndexRef' = Max(currentIndexRef, 0)]_vars

\* A word boundary inside the second word of "abc d." moved the cursor to word 1.
C30_Witness ==
  /\ last.op = "boundary" /\ last.kind = "word" /\ last.pos = 5
  /\ wordsRef = <<WordPlain, WordPunct>>
  /\ wordIndex = 1


\* The recognition s was aborted by a later start(), not by stop() or reset(), and
\* had delivered no final result.
Replaced(s) == rsess[s].aborted /\ ~rsess[s].early /\ ~rsess[s].final

\* C31: an event of a recognition that a later start() has replaced changes neither
\* listening nor transcript and invokes no result callback; and listening is true
\* while the recognition that replaced it is listening.
C31_ReplacedRecognitionIsInert ==
  [][/\ (/\ rlast'.op \in {"onstart", "onresult", "onerror", "onend"}
         /\ Replaced(rlast'.sess)) =>
          /\ UNCHANGED <<listening, transcript>>
          /\ rlast'.calls = <<>>
     /\ (recognitionRef' # 0 /\ rsess'[recognitionRef'].st = "started") =>
          listening']_vars


\* The transport s is still connecting or open although connect() has been called
\* again since it was created.
Superseded(ss, s) == s < Len(ss) /\ ss[s] \in {CONNECTING, OPEN}

\* C32: once connect() has been called again, an open, message, close or error event
\* of the previous transport invokes no handler and leaves the keepalive timer of
\* the new connection alone, no keepalive timer of the previous transport is
\* running, and the previous transport is neither connecting nor open.
C32_ConnectionSupersession ==
  [][/\ (/\ clast'.op \in {"open", "message", "close", "error"}
         /\ Superseded(socks, clast'.sock)) =>
          /\ clast'.calls = <<>>
          /\ UNCHANGED pingTimer
          /\ intervals' \subseteq intervals
          /\ socket' \in intervals => socket' \in intervals'
     /\ \A s \in 1..Len(socks') :
          s < Len(socks') => (s \notin intervals' /\ socks'[s] \notin {CONNECTING, OPEN})]_vars


\* C33: an inbound message that is JSON without a type field (an object without
\* type, a number, null) invokes no handler, typed or wildcard, and leaves the
\* socket and the keepalive timer as they were.
C33_UntypedMessageDropped ==
  [][(clast'.op = "message" /\ clast'.payload.valid /\ ~HasType(clast'.payload)) =>
       /\ clast'.calls = <<>>
       /\ UNCHANGED <<socket, socks, pingTimer, intervals, listeners>>]_vars


\* C38: the hook's paused flag is true exactly when the engine is in its paused
\* state, which pause() enters and only resume() leaves.
C38_PausedTracksEngine == paused <=> enginePaused

\* C39: wordIndex is at least -1 and at most the index of the last word of the
\* sequence passed to the latest speak() (empty before the first speak() and after
\* reset()).
C39_CursorBounds == -1 <= wordIndex /\ wordIndex <= Len(wordsRef) - 1

\* C40: done = true implies speaking = false.
C40_DoneImpliesNotSpeaking == done => ~speaking

\* The last utterance of a reading has ended.
C40_Witness ==
  /\ last.op = "end"
  /\ Len(wordsRef) > 0
  /\ done /\ ~speaking


\* The reading has come to its end.
Finished == done /\ ~speaking /\ wordIndex = Len(wordsRef) - 1

\* C37: in the chunked strategy, once speak(words) has run with non-empty words the
\* state done = true, speaking = false, wordIndex = Len(words) - 1 is reached, and
\* the utterance whose end callback reaches it is the last chunk of buildChunks(words),
\* with nothing left in the engine or waiting for a gap.
C37_PlaybackTerminates ==
  /\ (nSess = 1 /\ Len(wordsRef) > 0) ~> Finished
  /\ [][(~done /\ done' /\ Len(wordsRef) > 0) =>
          /\ Len(queue) = 1
          /\ queue[1].c = Len(buildChunks(wordsRef)) - 1
          /\ queue' = <<>> /\ timers' = {}]_vars

\* A reading of two chunks has come to its end.
C37_Witness ==
  /\ isAndroid
  /\ Finished
  /\ last.op = "end"
  /\ Len(buildChunks(wordsRef)) = 2

\* C34: in bonus practice, once Space is pressed while the lead-in or a part is being
\* read and the speech is not yet done, the phase eventually moves on with no further
\* user action: to reading part 1 after the lead-in, to answering after a part.
C34_SkipMovesOn ==
  /\ (last.op = "stop" /\ last.from = "speaking" /\ bonusPhase = "reading_leadin")
       ~> (bonusPhase = "reading_part")
  /\ (last.op = "stop" /\ last.from = "speaking" /\ bonusPhase = "reading_part")
       ~> (bonusPhase = "answering")

\* C35: while one doSubmit call awaits the answer check, a further doSubmit call issues
\* no request and leaves result, score and phase alone; at most one answer check is in
\* flight; an accepted or rejected answer updates the score once, in the step in which
\* its check completes; the guard is held exactly while a check is in flight, so it is
\* released when the check completes or fails.
C35_DoubleSubmitGuard ==
  /\ [](Cardinality(pending) <= 1)
  /\ [](submittingRef <=> pending # {})
  /\ [][ /\ (slast'.op = "doSubmit" /\ submittingRef)
            => /\ ~slast'.issued
               /\ UNCHANGED <<pending, submitResult, score, tossupPhase>>
         /\ (slast'.op = "resolved" /\ slast'.directive \in {"accept", "reject"})
            => /\ score' = updateTossupScore(
                             score, calcTossupPoints(slast'.directive, powerIndex, buzzIndex))
               /\ score'.questions = score.questions + 1
               /\ tossupPhase' = "result"
         /\ score' # score => slast'.op = "resolved"
         /\ slast'.op \in {"resolved", "failed"} => ~submittingRef' ]_vars

\* A doSubmit call arrived while an earlier one was awaiting its check.
C35_Witness ==
  /\ slast.op = "doSubmit"
  /\ ~slast.issued
  /\ submittingRef
  /\ Cardinality(pending) = 1
  /\ slast.n \notin pending

\* C36: any two requests sent through the throttled HTTP wrapper are sent at least
\* RATE_LIMIT_MS apart, also when calls are started while an earlier call is waiting
\* out its delay.
C36_RateLimit ==
  \A i, j \in DOMAIN requests : i < j => requests[j] - requests[i] >= RATE_LIMIT_MS

====
